---------------------------- MODULE Spec2Model ----------------------------
(***************************************************************************)
(* Model of the anyheart backend (src/backend/src): the content shield     *)
(* (process_html / replacement_apply), the response parser (llm.forward),  *)
(* the edit pipeline (AgentSession._apply_edit) and the per-session        *)
(* request handler (AgentSession.process_user_request) over the in-memory  *)
(* store (db.py).                                                          *)
(*                                                                         *)
(* Texts are sequences of lexemes; every lexeme is the literal piece of    *)
(* text it stands for, and a text is the concatenation of its lexemes.     *)
(* The lexeme alphabets are chosen so that no regular expression of the    *)
(* source can match across a lexeme boundary other than as modelled.       *)
(***************************************************************************)
EXTENDS Integers, Sequences, FiniteSets, TLC

VARIABLES
    (* content shield: utils.process_html, utils.replacement_apply *)
    shield_pc, html, processed_html, replacements, calls, restored_html,
    (* response parser: llm.forward *)
    parse_pc, payload, fence, oracle, text, generation, debug_file,
    (* edit pipeline: AgentSession._apply_edit *)
    edit_pc, edit_session, edit_text, patch_answer, patch_output, final_html,
    edit_result, edit_snapshots,
    (* sessions: db.py, utils.create_agent_session, AgentSession *)
    store, requests, request, returned, oracle_calls, patch_calls, snapshots, prompt,
    (* observation channel: websocket_manager.WebSocketManager *)
    connections, locks, lock_owner, lock_waiters, tasks, next_ws,
    (* concurrent requests: the handlers on the event loop *)
    handlers, running,
    (* db.py: the lock of the store and the threads calling get and set *)
    db_lock, db_threads

shieldVars == <<shield_pc, html, processed_html, replacements, calls, restored_html>>

parseVars == <<parse_pc, payload, fence, oracle, text, generation, debug_file>>

editVars ==
    <<edit_pc, edit_session, edit_text, patch_answer, patch_output, final_html,
      edit_result, edit_snapshots>>

sessionVars ==
    <<store, requests, request, returned, oracle_calls, patch_calls, snapshots, prompt>>

wsVars == <<connections, locks, lock_owner, lock_waiters, tasks, next_ws>>

concVars == <<handlers, running>>

dbVars == <<db_lock, db_threads>>

vars == <<shieldVars, parseVars, editVars, sessionVars, wsVars, concVars, dbVars>>

-----------------------------------------------------------------------------
(* Bounds of the model. *)

MaxDocLen == 4

MaxEditLen == 4

(* The number of websockets accepted in one behaviour. *)
MaxConnects == 2

(* The number of requests handled in one behaviour. *)
MaxRequests == 2

(* The number of times a shared configuration is viewed. *)
MaxViews == 1

-----------------------------------------------------------------------------
(* Generic helpers on sequences. *)

Min(S) == CHOOSE x \in S : \A y \in S : x <= y

Range(s) == {s[i] : i \in 1..Len(s)}

RECURSIVE Concat(_)
Concat(ss) == IF ss = <<>> THEN <<>> ELSE Head(ss) \o Concat(Tail(ss))

SeqsUpTo(A, n) == UNION {[1..k -> A] : k \in 0..n}

(* Python `needle in hay` for texts aligned on lexemes. *)
Contains(hay, needle) ==
    \E i \in 0..(Len(hay) - Len(needle)) :
        \A k \in 1..Len(needle) : hay[i + k] = needle[k]

(* str.lower() of one lexeme: the lexemes of documents, edit texts and      *)
(* Oracle texts that have upper-case letters are listed, and a lexeme       *)
(* without one is returned as it is.                                        *)
Lower(lex) ==
    CASE lex = "<SCRIPT>" -> "<script>"
      [] lex = "</SCRIPT>" -> "</script>"
      [] lex = "</BODY>" -> "</body>"
      [] lex = "<h1>Hi</h1>" -> "<h1>hi</h1>"
      [] lex = "GENERATION_COMPLETE" -> "generation_complete"
      [] lex = "\"GENERATION_COMPLETE\"" -> "\"generation_complete\""
      [] lex = "\"x GENERATION_COMPLETE\"" -> "\"x generation_complete\""
      [] lex = "Sure:" -> "sure:"
      [] OTHER -> lex

-----------------------------------------------------------------------------
(* utils.process_html: the tag table and the placeholder tokens. *)

tags_to_replace == <<"svg", "script", "style", "meta", "link">>

(* f"{tag[0]}{tag[1]}" *)
TagPrefix(tag) ==
    CASE tag = "svg" -> "sv"
      [] tag = "script" -> "sc"
      [] tag = "style" -> "st"
      [] tag = "meta" -> "me"
      [] tag = "link" -> "li"

(* A plausible slip: the token keeps only the first letter of the category. *)
PlaceholderFirstLetter(tag, n) ==
    "__" \o (IF tag \in {"svg", "script", "style"} THEN "s"
             ELSE IF tag = "meta" THEN "m" ELSE "l") \o ToString(n) \o "__"

(* placeholder = f"__{tag[0]}{tag[1]}{counters[tag]}__" *)
Placeholder(tag, n) == "__" \o TagPrefix(tag) \o ToString(n) \o "__"

(* The opening part <tag[^>]*> of a pattern, case-insensitive. *)
IsOpen(tag, lex) ==
    LET l == Lower(lex) IN
    CASE tag = "svg" -> l \in {"<svg>"}
      [] tag = "script" -> l \in {"<script>", "<script src=a>"}
      [] tag = "style" -> l \in {"<style>"}
      [] tag = "meta" -> l \in {"<meta>"}
      [] tag = "link" -> l \in {"<link>"}

(* The closing part </tag> of a pattern; meta and link have none. *)
IsClose(tag, lex) ==
    LET l == Lower(lex) IN
    CASE tag = "svg" -> l = "</svg>"
      [] tag = "script" -> l = "</script>"
      [] tag = "style" -> l = "</style>"
      [] OTHER -> FALSE

IsVoid(tag) == tag \in {"meta", "link"}

(* Length in lexemes of the match of the category's pattern that starts at  *)
(* the head of d; 0 when the pattern does not match there.  [\s\S]*? stops  *)
(* at the first closing tag.                                                *)
MatchLen(tag, d) ==
    IF d = <<>> \/ ~IsOpen(tag, Head(d)) THEN 0
    ELSE IF IsVoid(tag) THEN 1
    ELSE LET closes == {j \in 2..Len(d) : IsClose(tag, d[j])}
         IN IF closes = {} THEN 0 ELSE Min(closes)

(* re.sub(r"<!--[\s\S]*?-->", "", html) *)
RECURSIVE RemoveComments(_)
RemoveComments(d) ==
    IF d = <<>> THEN <<>>
    ELSE LET ends == {j \in 2..Len(d) : d[j] = "-->"}
         IN IF Head(d) = "<!--" /\ ends # {}
            THEN RemoveComments(SubSeq(d, Min(ends) + 1, Len(d)))
            ELSE <<Head(d)>> \o RemoveComments(Tail(d))

(* replacements[placeholder] = value on an insertion-ordered dict. *)
DictSet(m, key, value) ==
    IF \E i \in 1..Len(m) : m[i].k = key
    THEN [i \in 1..Len(m) |-> IF m[i].k = key THEN [k |-> key, v |-> value] ELSE m[i]]
    ELSE Append(m, [k |-> key, v |-> value])

DictKeys(m) == {m[i].k : i \in 1..Len(m)}

DictValues(m) == {m[i].v : i \in 1..Len(m)}

(* One re.sub(pattern, replace_func, processed_html) of the loop: acc holds *)
(* the text produced so far, the dict, the category's counter and the log   *)
(* of replace_func calls.                                                   *)
RECURSIVE SubTag(_, _, _)
SubTag(tag, d, acc) ==
    IF d = <<>> THEN acc
    ELSE LET n == MatchLen(tag, d) IN
         IF n = 0
         THEN SubTag(tag, Tail(d), [acc EXCEPT !.out = Append(@, Head(d))])
         ELSE LET placeholder == Placeholder(tag, acc.counter)
                  span == SubSeq(d, 1, n)
              IN SubTag(tag, SubSeq(d, n + 1, Len(d)),
                        [out |-> Append(acc.out, placeholder),
                         reps |-> DictSet(acc.reps, placeholder, span),
                         counter |-> acc.counter + 1,
                         calls |-> Append(acc.calls,
                                          [tag |-> tag, n |-> acc.counter,
                                           token |-> placeholder, span |-> span])])

RECURSIVE ReplaceTags(_, _)
ReplaceTags(i, st) ==
    IF i > Len(tags_to_replace) THEN st
    ELSE LET r == SubTag(tags_to_replace[i], st.html,
                         [out |-> <<>>, reps |-> st.reps, counter |-> 1,
                          calls |-> st.calls])
         IN ReplaceTags(i + 1, [html |-> r.out, reps |-> r.reps, calls |-> r.calls])

(* process_html(html): .html is processed_html, .reps the replacements dict *)
(* in insertion order, .calls the replace_func calls in the order made.     *)
process_html(d) ==
    ReplaceTags(1, [html |-> RemoveComments(d), reps |-> <<>>, calls |-> <<>>])

(* restored_html.replace(placeholder, original_content) *)
RECURSIVE ReplaceAll(_, _, _)
ReplaceAll(d, key, value) ==
    IF d = <<>> THEN <<>>
    ELSE IF Head(d) = key THEN value \o ReplaceAll(Tail(d), key, value)
    ELSE <<Head(d)>> \o ReplaceAll(Tail(d), key, value)

RECURSIVE ApplyFrom(_, _, _)
ApplyFrom(d, m, i) ==
    IF i > Len(m) THEN d
    ELSE ApplyFrom(ReplaceAll(d, m[i].k, m[i].v), m, i + 1)

(* replacement_apply(processed_html, replacements) *)
replacement_apply(d, m) == ApplyFrom(d, m, 1)

-----------------------------------------------------------------------------
(* llm.forward: the Oracle's text as lexemes.                               *)

IsSpace(lex) == lex \in {" ", "\n"}

(* The JSON string literals of the alphabet (keys and values). *)
StringLexemes ==
    {"\"edits\"", "\"reasoning\"", "\"note\"", "\"\"", "\"r\"", "\"n\"",
     "\"<style>h1{}</style>\"", "\"<script>a</script>\"",
     "\"GENERATION_COMPLETE\"", "\"x GENERATION_COMPLETE\"",
     "\"it\\'s\"", "\"it's\""}

(* A string literal json.loads accepts: \' is not a JSON escape. *)
ValidString(lex) == lex \in StringLexemes \ {"\"it\\'s\""}

(* The text a valid string literal decodes to. *)
StrValue(lex) ==
    CASE lex = "\"edits\"" -> <<"edits">>
      [] lex = "\"reasoning\"" -> <<"reasoning">>
      [] lex = "\"note\"" -> <<"note">>
      [] lex = "\"\"" -> <<>>
      [] lex = "\"r\"" -> <<"r">>
      [] lex = "\"n\"" -> <<"n">>
      [] lex = "\"<style>h1{}</style>\"" -> <<"<style>", "h1{}", "</style>">>
      [] lex = "\"<script>a</script>\"" -> <<"<script>", "a", "</script>">>
      [] lex = "\"GENERATION_COMPLETE\"" -> <<"GENERATION_COMPLETE">>
      [] lex = "\"x GENERATION_COMPLETE\"" -> <<"x", " ", "GENERATION_COMPLETE">>
      [] lex = "\"it's\"" -> <<"it's">>

(* A JavaScript method call the model appended to a string literal. *)
IsJsCall(lex) == lex = ".replace(\"a\", \"b\")"

(* line.count("{") and line.count("}") of one lexeme. *)
OpenBraces(lex) == IF lex \in {"{", "\"<style>h1{}</style>\""} THEN 1 ELSE 0

CloseBraces(lex) == IF lex \in {"}", "\"<style>h1{}</style>\""} THEN 1 ELSE 0

(* text.count("{") and text.count("}") *)
RECURSIVE CountOpen(_)
CountOpen(t) == IF t = <<>> THEN 0 ELSE OpenBraces(Head(t)) + CountOpen(Tail(t))

RECURSIVE CountClose(_)
CountClose(t) == IF t = <<>> THEN 0 ELSE CloseBraces(Head(t)) + CountClose(Tail(t))

(* str.strip() *)
RECURSIVE LStrip(_)
LStrip(t) == IF t # <<>> /\ IsSpace(Head(t)) THEN LStrip(Tail(t)) ELSE t

RECURSIVE RStrip(_)
RStrip(t) ==
    IF t # <<>> /\ IsSpace(t[Len(t)]) THEN RStrip(SubSeq(t, 1, Len(t) - 1)) ELSE t

Strip(t) == RStrip(LStrip(t))

(* The lexeme "<fence>" stands for three backticks (a string literal of     *)
(* this language cannot hold a backtick); "<fence>json" and "<fence>js" are *)
(* the fence followed by a language tag.                                    *)
IsFenceOpen(lex) == lex \in {"<fence>", "<fence>js", "<fence>json"}

(* json_text[3:] on a text that starts with three backticks. *)
CutThree(t) ==
    CASE Head(t) = "<fence>" -> Tail(t)
      [] Head(t) = "<fence>js" -> <<"js">> \o Tail(t)
      [] Head(t) = "<fence>json" -> <<"json">> \o Tail(t)

(* llm.py 232-239: strip, drop the json fence, drop a fence, drop a closing *)
(* fence, strip.                                                            *)
StripFence(t) ==
    LET a == Strip(t)
        b == IF a # <<>> /\ Head(a) = "<fence>json" THEN Tail(a) ELSE a
        c == IF b # <<>> /\ IsFenceOpen(Head(b)) THEN CutThree(b) ELSE b
        d == IF c # <<>> /\ c[Len(c)] = "<fence>" THEN SubSeq(c, 1, Len(c) - 1) ELSE c
    IN Strip(d)

-----------------------------------------------------------------------------
(* json.loads on the lexemes: a value is [t, s, truthy, member] with t its  *)
(* type, s the text of a string, truthy Python's bool() of it and member    *)
(* telling, for a list or an object, that "GENERATION_COMPLETE" is one of   *)
(* its elements or keys; an object also carries what .get("edits") and      *)
(* .get("reasoning") find.                                                  *)

Val(t, s, truthy) == [t |-> t, s |-> s, truthy |-> truthy, member |-> FALSE]

Arr(truthy, member) == [t |-> "arr", s |-> <<>>, truthy |-> truthy, member |-> member]

Missing == Val("missing", <<>>, FALSE)

Fail == [ok |-> FALSE, i |-> 0, v |-> Missing]

RECURSIVE SkipWs(_, _)
SkipWs(t, i) == IF i <= Len(t) /\ IsSpace(t[i]) THEN SkipWs(t, i + 1) ELSE i

RECURSIVE ParseValue(_, _)
RECURSIVE ParseMembers(_, _, _)
RECURSIVE ParseElements(_, _, _)

(* The members of an object from position i (a key) on; obj collects them,  *)
(* a later duplicate key replacing an earlier one.                          *)
ParseMembers(t, i, obj) ==
    IF i > Len(t) \/ ~ValidString(t[i]) THEN Fail
    ELSE LET c == SkipWs(t, i + 1) IN
         IF c > Len(t) \/ t[c] # ":" THEN Fail
         ELSE LET r == ParseValue(t, c + 1) IN
              IF ~r.ok THEN Fail
              ELSE LET key == StrValue(t[i])
                       o2 == [obj EXCEPT
                                !.edits = IF key = <<"edits">> THEN r.v ELSE @,
                                !.reasoning = IF key = <<"reasoning">> THEN r.v ELSE @,
                                !.truthy = TRUE,
                                !.member = @ \/ key = <<"GENERATION_COMPLETE">>]
                       j == SkipWs(t, r.i)
                   IN IF j > Len(t) THEN Fail
                      ELSE IF t[j] = "}" THEN [ok |-> TRUE, i |-> j + 1, v |-> o2]
                      ELSE IF t[j] = "," THEN ParseMembers(t, SkipWs(t, j + 1), o2)
                      ELSE Fail

ParseElements(t, i, member) ==
    LET r == ParseValue(t, i) IN
    IF ~r.ok THEN Fail
    ELSE LET j == SkipWs(t, r.i)
             m == member \/ (r.v.t = "str" /\ r.v.s = <<"GENERATION_COMPLETE">>)
         IN
         IF j > Len(t) THEN Fail
         ELSE IF t[j] = "]" THEN [ok |-> TRUE, i |-> j + 1, v |-> Arr(TRUE, m)]
         ELSE IF t[j] = "," THEN ParseElements(t, j + 1, m)
         ELSE Fail

ParseValue(t, i0) ==
    LET i == SkipWs(t, i0) IN
    IF i > Len(t) THEN Fail
    ELSE LET lex == t[i] IN
         IF lex = "{"
         THEN LET j == SkipWs(t, i + 1)
                  empty == [t |-> "obj", s |-> <<>>, truthy |-> FALSE, member |-> FALSE,
                            edits |-> Missing, reasoning |-> Missing]
              IN IF j <= Len(t) /\ t[j] = "}"
                 THEN [ok |-> TRUE, i |-> j + 1, v |-> empty]
                 ELSE ParseMembers(t, j, empty)
         ELSE IF lex = "["
         THEN LET j == SkipWs(t, i + 1)
              IN IF j <= Len(t) /\ t[j] = "]"
                 THEN [ok |-> TRUE, i |-> j + 1, v |-> Arr(FALSE, FALSE)]
                 ELSE ParseElements(t, j, FALSE)
         ELSE IF lex \in StringLexemes
         THEN IF ValidString(lex)
              THEN [ok |-> TRUE, i |-> i + 1,
                    v |-> Val("str", StrValue(lex), StrValue(lex) # <<>>)]
              ELSE Fail
         ELSE IF lex = "null" THEN [ok |-> TRUE, i |-> i + 1, v |-> Val("null", <<>>, FALSE)]
         ELSE IF lex = "5" THEN [ok |-> TRUE, i |-> i + 1, v |-> Val("num", <<>>, TRUE)]
         ELSE Fail

(* json.loads(text): one value, nothing but whitespace after it. *)
JsonLoads(t) ==
    LET r == ParseValue(t, 1) IN
    IF r.ok /\ SkipWs(t, r.i) > Len(t) THEN r ELSE Fail

-----------------------------------------------------------------------------
(* llm.py 247-330: the repair chain run after a first decode failure.       *)

(* llm.py 254-274: the escape fixes, lexeme by lexeme. *)
FixEscape(lex) == IF lex = "\"it\\'s\"" THEN "\"it's\"" ELSE lex

FixEscapes(t) == [i \in 1..Len(t) |-> FixEscape(t[i])]

(* cleaned_json.split("\n") *)
RECURSIVE SplitLines(_, _)
SplitLines(t, cur) ==
    IF t = <<>> THEN <<cur>>
    ELSE IF Head(t) = "\n" THEN <<cur>> \o SplitLines(Tail(t), <<>>)
    ELSE SplitLines(Tail(t), Append(cur, Head(t)))

(* "\n".join(json_lines) *)
RECURSIVE JoinLines(_)
JoinLines(ls) ==
    IF ls = <<>> THEN <<>>
    ELSE IF Len(ls) = 1 THEN ls[1]
    ELSE ls[1] \o <<"\n">> \o JoinLines(Tail(ls))

(* line.strip().startswith("{") *)
StartsObject(line) == LET l == Strip(line) IN l # <<>> /\ Head(l) = "{"

(* llm.py 293-303: the loop over the lines; st = [lines, depth, found, stop]. *)
RECURSIVE TakeFirstObject(_, _)
TakeFirstObject(ls, st) ==
    IF ls = <<>> \/ st.stop THEN st.lines
    ELSE LET line == Head(ls)
             found == st.found \/ StartsObject(line)
         IN IF ~found THEN TakeFirstObject(Tail(ls), st)
            ELSE LET lines == Append(st.lines, line)
                     depth == st.depth + CountOpen(line) - CountClose(line)
                 IN TakeFirstObject(Tail(ls),
                        [lines |-> lines, depth |-> depth, found |-> TRUE,
                         stop |-> (depth = 0 /\ Len(lines) > 1)])

(* llm.py 309-319: "string".replace(...) -> "string". *)
RECURSIVE RemoveJsCalls(_, _)
RemoveJsCalls(t, prev) ==
    IF t = <<>> THEN <<>>
    ELSE IF IsJsCall(Head(t)) /\ prev \in StringLexemes
    THEN RemoveJsCalls(Tail(t), Head(t))
    ELSE <<Head(t)>> \o RemoveJsCalls(Tail(t), Head(t))

(* llm.py 277-282 *)
NeedsCleaning(t) ==
    \/ \E i \in 1..Len(t) : IsJsCall(t[i])
    \/ CountOpen(t) > 1

Repair(json_text) ==
    LET cleaned == FixEscapes(json_text) IN
    IF NeedsCleaning(cleaned)
    THEN RemoveJsCalls(
             JoinLines(TakeFirstObject(SplitLines(cleaned, <<>>),
                 [lines |-> <<>>, depth |-> 0, found |-> FALSE, stop |-> FALSE])),
             "")
    ELSE cleaned

(* llm.py 242-330: decode, directly or after the repair chain. *)
Decode(json_text) ==
    LET first == JsonLoads(json_text) IN
    IF first.ok THEN first ELSE JsonLoads(Repair(json_text))

-----------------------------------------------------------------------------
(* llm.py 331-373: from the decoded value to the Generation.  A Generation  *)
(* is [status, message, edits], edits a sequence holding the edit text or   *)
(* empty for None; dump tells whether the debug file write was attempted.   *)

Generation(status, message, edits) ==
    [status |-> status, message |-> message, edits |-> edits]

Outcome(g, dump) == [generation |-> g, dump |-> dump]

(* llm.py 338-362 *)
ParseError(why) ==
    Outcome(Generation("error", <<"Invalid JSON response from AI: ", why>>, <<>>), TRUE)

(* llm.py 369-373 *)
ProcessingError(why) ==
    Outcome(Generation("error", <<"Error processing request: ", why>>, <<>>), FALSE)

(* "GENERATION_COMPLETE" in edits, for edits a text. *)
HasSentinel(s) == \E i \in 1..Len(s) : s[i] = "GENERATION_COMPLETE"

(* llm.py 364: "GENERATION_COMPLETE" in edits, a substring test for a text  *)
(* and a membership test for a list (its elements) or a dict (its keys).    *)
InEdits(edits) == IF edits.t = "str" THEN HasSentinel(edits.s) ELSE edits.member

(* llm.py 334: not edits and not reasoning *)
MissingBoth(edits, reasoning) == ~edits.truthy /\ ~reasoning.truthy

(* A slip: the missing-fields check is left out. *)
NeverMissing(edits, reasoning) == FALSE

MissingFields(edits, reasoning) == MissingBoth(edits, reasoning)

(* llm.py 331-367 on a decoded value. *)
FromResult(result) ==
    IF result.t # "obj" THEN ProcessingError("no attribute 'get'")
    ELSE LET edits == IF result.edits.t = "missing" THEN Val("str", <<>>, FALSE)
                      ELSE result.edits
             reasoning == IF result.reasoning.t = "missing" THEN Val("str", <<>>, FALSE)
                          ELSE result.reasoning
         IN IF MissingFields(edits, reasoning)
            THEN ParseError("Response missing both 'edits' and 'reasoning' fields")
            ELSE IF edits.t \in {"null", "num"}
            THEN ProcessingError("argument is not iterable")
            ELSE IF InEdits(edits)
            THEN IF reasoning.t = "str"
                 THEN Outcome(Generation("completed", reasoning.s, <<>>), FALSE)
                 ELSE ProcessingError("validation error for Generation")
            ELSE IF reasoning.t = "str" /\ edits.t = "str"
                 THEN Outcome(Generation("applied_edit", reasoning.s, <<edits.s>>), FALSE)
                 ELSE ProcessingError("validation error for Generation")

(* forward() on the text the Oracle returned. *)
ForwardText(t) ==
    LET r == Decode(StripFence(t)) IN
    IF r.ok THEN FromResult(r.v) ELSE ParseError("JSONDecodeError")

(* forward(): how is "text" when the Oracle answered, "raises" when the     *)
(* call raised, "no_client" when the client was never initialised.          *)
forward(how, t) ==
    CASE how = "no_client" ->
            Outcome(Generation("error", <<"OpenRouter client not initialized. Check OPENROUTER_API_KEY.">>, <<>>), FALSE)
      [] how = "raises" -> ProcessingError("oracle call raised")
      [] how = "text" -> ForwardText(t)

-----------------------------------------------------------------------------
(* utils.morph_apply: the Patch Collaborator is external; it raises or      *)
(* returns a text.  The answers modelled: "raise"; "echo" returns the       *)
(* document as sent; "insert" puts the update before the first </body> (at  *)
(* the end when there is none); "append" puts it at the end.                *)

MorphAnswers == {"raise", "echo", "insert", "append"}

FirstBody(d) ==
    LET at == {i \in 1..Len(d) : d[i] = "</body>"} IN IF at = {} THEN 0 ELSE Min(at)

morph_apply(answer, d, update) ==
    CASE answer = "echo" -> d
      [] answer = "append" -> d \o update
      [] answer = "insert" ->
            IF FirstBody(d) = 0 THEN d \o update
            ELSE SubSeq(d, 1, FirstBody(d) - 1) \o update
                     \o SubSeq(d, FirstBody(d), Len(d))

-----------------------------------------------------------------------------
(* agent.py 128-196: AgentSession._apply_edit, from the patch output to the *)
(* final document.                                                          *)

(* re.findall(r"<script[^>]*>[\s\S]*?</script>", text, re.IGNORECASE) *)
RECURSIVE FindScripts(_)
FindScripts(d) ==
    IF d = <<>> THEN <<>>
    ELSE LET n == MatchLen("script", d) IN
         IF n = 0 THEN FindScripts(Tail(d))
         ELSE <<SubSeq(d, 1, n)>> \o FindScripts(SubSeq(d, n + 1, Len(d)))

(* new_html.replace("</body>", f"{script}\n</body>") *)
InsertBeforeBody(d, script) == ReplaceAll(d, "</body>", script \o <<"\n", "</body>">>)

(* agent.py 170-181: the scripts of the patch output that the restored      *)
(* document lost are put back.                                              *)
RECURSIVE Salvage(_, _, _, _)
Salvage(new_html, new_scripts, current_scripts, reps) ==
    IF new_scripts = <<>> THEN new_html
    ELSE LET script == Head(new_scripts)
             lost == script \notin Range(current_scripts) /\ script \notin DictValues(reps)
         IN Salvage(IF lost THEN InsertBeforeBody(new_html, script) ELSE new_html,
                    Tail(new_scripts), current_scripts, reps)

(* agent.py 184: "<script>" in generation.edits.lower() *)
EditsHaveScriptTag(edits) == \E i \in 1..Len(edits) : Lower(edits[i]) = "<script>"

(* agent.py 191-196: the scripts of the edit text are put in directly. *)
RECURSIVE AddDirect(_, _)
AddDirect(new_html, direct_scripts) ==
    IF direct_scripts = <<>> THEN new_html
    ELSE LET script == Head(direct_scripts) IN
         AddDirect(IF ~Contains(new_html, script)
                   THEN InsertBeforeBody(new_html, script) ELSE new_html,
                   Tail(direct_scripts))

(* agent.py 183-196 *)
Fallback(new_html, new_scripts, edits) ==
    IF Len(new_scripts) = 0 /\ EditsHaveScriptTag(edits)
    THEN AddDirect(new_html, FindScripts(edits))
    ELSE new_html

(* agent.py 143-196: the final document for a patch output. *)
FinalHtml(new_processed_html, reps, edits) ==
    LET new_scripts == FindScripts(new_processed_html)
        restored == replacement_apply(new_processed_html, reps)
        current_scripts == FindScripts(restored)
    IN Fallback(Salvage(restored, new_scripts, current_scripts, reps), new_scripts, edits)

-----------------------------------------------------------------------------
(* db.py and utils.py 205-253: the store maps the ids of the sessions it    *)
(* holds to their records; a record is a function of the fields it has.     *)
(* The id and the time stamps of a record are left out.                     *)

EmptyStore == [sid \in {} |-> [status |-> "none"]]

(* db.set(key, value) *)
DbSet(st, key, value) == [k \in DOMAIN st \cup {key} |-> IF k = key THEN value ELSE st[k]]

(* dict.update *)
Merge(r, updates) ==
    [k \in DOMAIN r \cup DOMAIN updates |-> IF k \in DOMAIN updates THEN updates[k] ELSE r[k]]

(* None, the value get returns for a key the store does not hold *)
None == [status |-> "None"]

(* "if not session" for session = db.get(sid): the store does not hold the  *)
(* key, or holds None or an empty record under it.                          *)
NotSession(st, sid) == sid \notin DOMAIN st \/ st[sid] = None \/ DOMAIN st[sid] = {}

(* session.get(field, default) *)
DictGet(session, field, default) ==
    IF field \in DOMAIN session THEN session[field] ELSE default

(* update_session(session_id, updates) *)
update_session(st, sid, updates) ==
    IF NotSession(st, sid) THEN st ELSE DbSet(st, sid, Merge(st[sid], updates))

(* The values the max_iterations argument takes: an integer when the caller *)
(* gives one (5 by default), and the initial_screenshot of the request,     *)
(* None or a text, when routes.start_agent_session makes the session.       *)
PyInt(n) == [t |-> "int", n |-> n]

PyNone == [t |-> "none", n |-> 0]

PyStr == [t |-> "str", n |-> 0]

DefaultMaxIterations == 5

(* A slip: the record is made with the empty turn log the request handler  *)
(* reads.                                                                   *)
create_agent_session_with_turn_log(st, sid, d, query, max_iterations) ==
    LET r == process_html(d) IN
    DbSet(st, sid,
          [status |-> "created",
           max_iterations |-> max_iterations,
           current_iteration |-> 0,
           html |-> d,
           current_html |-> d,
           processed_html |-> r.html,
           current_processed_html |-> r.html,
           replacements |-> r.reps,
           original_query |-> query,
           iterations |-> <<>>,
           conversation_history |-> <<>>])

(* create_agent_session(session_id, html, query, max_iterations) *)
create_agent_session(st, sid, d, query, max_iterations) ==
    LET r == process_html(d) IN
    DbSet(st, sid,
          [status |-> "created",
           max_iterations |-> max_iterations,
           current_iteration |-> 0,
           html |-> d,
           current_html |-> d,
           processed_html |-> r.html,
           current_processed_html |-> r.html,
           replacements |-> r.reps,
           original_query |-> query,
           iterations |-> <<>>])

-----------------------------------------------------------------------------
(* agent.py 30-227: AgentSession.process_user_request.  No await of the     *)
(* handler suspends, so a request runs from start to end without another    *)
(* one in between.                                                          *)

ProcessingResult(status, message, updated_html) ==
    [status |-> status, message |-> message, updated_html |-> updated_html]

(* What a request did: the store it leaves, the result it returns, the      *)
(* calls it made to the Oracle and to the Patch Collaborator, the snapshots *)
(* it wrote and the prompt it sent.                                         *)
Run(st, res, oc, pc, snaps, pr) ==
    [store |-> st, result |-> res, oracle_calls |-> oc, patch_calls |-> pc,
     snapshots |-> snaps, prompt |-> pr]

NoPrompt == [file |-> <<>>, query |-> <<>>, context |-> <<>>]

(* agent.py 229-280: the snapshot is written when the session exists; its   *)
(* metadata are kept.                                                       *)
save_session_file(st, sid) ==
    IF NotSession(st, sid) THEN <<>>
    ELSE <<[session_id |-> sid,
            final_status |-> DictGet(st[sid], "status", "unknown"),
            total_messages |-> Len(DictGet(st[sid], "conversation_history", <<>>))]>>

(* llm.py 49-159: the prompt is made of the current shielded document, the  *)
(* original query and the iterations field, which is empty in every record  *)
(* the code makes.                                                          *)
get_prompt(session) ==
    [file |-> session.current_processed_html,
     query |-> session.original_query,
     context |-> IF session.iterations = <<>> THEN <<"No previous iterations.">>
                 ELSE session.iterations]

(* agent.py 76-94: a screenshot is None (here <<>>) or a text, base64 with  *)
(* or without a data-URL prefix; the text "abc" does not decode.            *)
Screenshots == {<<>>, <<"data:image/png;base64,aGk=">>, <<"abc">>}

(* agent.py 87-89: image_data.split(",")[1] of a data URL *)
ImageData(screenshot) ==
    IF screenshot = <<"data:image/png;base64,aGk=">> THEN <<"aGk=">> ELSE screenshot

(* base64.b64decode(image_data) returns (it raises binascii.Error if not). *)
Base64Decodes(image_data) == image_data = <<"aGk=">>

(* agent.py 70-94: the time stamps of the message and of the file name are  *)
(* left out; image_path is there when a screenshot was saved.               *)
UserMessage(sid, query, screenshot) ==
    IF screenshot = <<>> THEN [role |-> "user", content |-> query, edits |-> <<>>]
    ELSE [role |-> "user", content |-> query, edits |-> <<>>,
          image_path |-> "screenshots/" \o sid \o ".png"]

AgentMessage(g) == [role |-> "agent", content |-> g.message, edits |-> g.edits]

(* agent.py 64-103: raised tells the exception, of a screenshot that does   *)
(* not decode or of a record without a conversation_history.                *)
add_user_message(st, sid, query, screenshot) ==
    IF NotSession(st, sid) THEN [raised |-> FALSE, why |-> "", store |-> st]
    ELSE IF screenshot # <<>> /\ ~Base64Decodes(ImageData(screenshot))
    THEN [raised |-> TRUE, why |-> "Incorrect padding", store |-> st]
    ELSE IF "conversation_history" \notin DOMAIN st[sid]
    THEN [raised |-> TRUE, why |-> "'conversation_history'", store |-> st]
    ELSE [raised |-> FALSE, why |-> "",
          store |-> update_session(st, sid,
                        [conversation_history |->
                             Append(st[sid].conversation_history,
                                    UserMessage(sid, query, screenshot)),
                         status |-> "processing"])]

(* A slip: the exception leaves the handler, and no snapshot is written. *)
Escapes(st, sid, why, oc, pc, pr) ==
    Run(st, ProcessingResult("raised", <<why>>, <<>>), oc, pc, <<>>, pr)

(* agent.py 56-62: the handler of an exception. *)
Caught(st, sid, why, oc, pc, pr) ==
    Run(st, ProcessingResult("error", <<"Error: ", why>>, <<>>), oc, pc,
        save_session_file(st, sid), pr)

(* A slip: a patch that fails is tried a second time. *)
apply_edit_retrying(st, sid, g, patch, pr) ==
    LET session == st[sid] IN
    IF patch = "raise" THEN Caught(st, sid, "Morph API error", 1, 2, pr)
    ELSE LET new_processed_html == morph_apply(patch, session.current_processed_html, g.edits[1])
             new_html == FinalHtml(new_processed_html, session.replacements, g.edits[1])
             after == update_session(st, sid,
                          [current_html |-> new_html,
                           current_processed_html |-> new_processed_html,
                           conversation_history |->
                               Append(session.conversation_history, AgentMessage(g)),
                           status |-> "ready",
                           message |-> g.message])
         IN Run(after, ProcessingResult("success", g.message, <<new_html>>), 1, 1,
                save_session_file(after, sid), pr)

(* A slip: the placeholder map is made again from the new document. *)
apply_edit_remapping(st, sid, g, patch, pr) ==
    LET session == st[sid] IN
    IF patch = "raise" THEN Caught(st, sid, "Morph API error", 1, 1, pr)
    ELSE LET new_processed_html == morph_apply(patch, session.current_processed_html, g.edits[1])
             new_html == FinalHtml(new_processed_html, session.replacements, g.edits[1])
             after == update_session(st, sid,
                          [current_html |-> new_html,
                           current_processed_html |-> new_processed_html,
                           conversation_history |->
                               Append(session.conversation_history, AgentMessage(g)),
                           replacements |-> process_html(new_html).reps,
                           status |-> "ready",
                           message |-> g.message])
         IN Run(after, ProcessingResult("success", g.message, <<new_html>>), 1, 1,
                save_session_file(after, sid), pr)

(* A slip: the shielded baseline is made again from the new document. *)
apply_edit_reshielding(st, sid, g, patch, pr) ==
    LET session == st[sid] IN
    IF patch = "raise" THEN Caught(st, sid, "Morph API error", 1, 1, pr)
    ELSE LET new_processed_html == morph_apply(patch, session.current_processed_html, g.edits[1])
             new_html == FinalHtml(new_processed_html, session.replacements, g.edits[1])
             after == update_session(st, sid,
                          [current_html |-> new_html,
                           current_processed_html |-> process_html(new_html).html,
                           conversation_history |->
                               Append(session.conversation_history, AgentMessage(g)),
                           status |-> "ready",
                           message |-> g.message])
         IN Run(after, ProcessingResult("success", g.message, <<new_html>>), 1, 1,
                save_session_file(after, sid), pr)

(* A slip: the agent turn is appended before the Patch Collaborator is      *)
(* called, and stays when the patch fails.                                  *)
apply_edit_turn_first(st, sid, g, patch, pr) ==
    LET session == st[sid]
        turned == update_session(st, sid,
                      [conversation_history |->
                           Append(session.conversation_history, AgentMessage(g))])
    IN
    IF patch = "raise" THEN Caught(turned, sid, "Morph API error", 1, 1, pr)
    ELSE LET new_processed_html == morph_apply(patch, session.current_processed_html, g.edits[1])
             new_html == FinalHtml(new_processed_html, session.replacements, g.edits[1])
             after == update_session(turned, sid,
                          [current_html |-> new_html,
                           current_processed_html |-> new_processed_html,
                           status |-> "ready",
                           message |-> g.message])
         IN Run(after, ProcessingResult("success", g.message, <<new_html>>), 1, 1,
                save_session_file(after, sid), pr)

(* agent.py 128-227 *)
apply_edit(st, sid, g, patch, pr) ==
    LET session == st[sid] IN
    IF patch = "raise" THEN Caught(st, sid, "Morph API error", 1, 1, pr)
    ELSE LET new_processed_html == morph_apply(patch, session.current_processed_html, g.edits[1])
             new_html == FinalHtml(new_processed_html, session.replacements, g.edits[1])
             after == update_session(st, sid,
                          [current_html |-> new_html,
                           current_processed_html |-> new_processed_html,
                           conversation_history |->
                               Append(session.conversation_history, AgentMessage(g)),
                           status |-> "ready",
                           message |-> g.message])
         IN Run(after, ProcessingResult("success", g.message, <<new_html>>), 1, 1,
                save_session_file(after, sid), pr)

(* agent.py 113-126: what the request does with the Generation g that     *)
(* forward returned after oc calls of the Oracle.                           *)
handle_generation(st, sid, g, oc, patch, pr) ==
    IF g.status = "error"
    THEN Run(st, ProcessingResult("error", g.message, <<>>), oc, 0,
             save_session_file(st, sid), pr)
    ELSE IF g.edits # <<>> /\ g.edits[1] # <<>>
    THEN apply_edit(st, sid, g, patch, pr)
    ELSE Run(st, ProcessingResult("success", g.message, <<>>), oc, 0,
             save_session_file(st, sid), pr)

(* agent.py 105-126: answer is what the Oracle does when it is called; a    *)
(* client that was never initialised is not called.                         *)
process_llm_request(st, sid, answer, patch) ==
    handle_generation(st, sid, forward(answer.how, answer.text).generation,
                      IF answer.how = "no_client" THEN 0 ELSE 1, patch, get_prompt(st[sid]))

(* A slip: the failure is recorded in the store for a session that is not  *)
(* there.                                                                   *)
process_user_request_recording(st, sid, query, screenshot, answer, patch) ==
    IF NotSession(st, sid)
    THEN Run(DbSet(st, sid, [status |-> "error"]),
             ProcessingResult("error", <<"Session not found">>, <<>>), 0, 0, <<>>, NoPrompt)
    ELSE LET a == add_user_message(st, sid, query, screenshot) IN
         IF a.raised THEN Caught(st, sid, a.why, 0, 0, NoPrompt)
         ELSE process_llm_request(a.store, sid, answer, patch)

(* agent.py 30-62 *)
process_user_request(st, sid, query, screenshot, answer, patch) ==
    IF NotSession(st, sid)
    THEN Run(st, ProcessingResult("error", <<"Session not found">>, <<>>), 0, 0, <<>>, NoPrompt)
    ELSE LET a == add_user_message(st, sid, query, screenshot) IN
         IF a.raised THEN Caught(st, sid, a.why, 0, 0, NoPrompt)
         ELSE process_llm_request(a.store, sid, answer, patch)

-----------------------------------------------------------------------------
(* websocket_manager.py: WebSocketManager.  connections and locks are the   *)
(* two dicts of the manager, from session ids to websockets and to locks;   *)
(* websockets and locks are numbered in the order connect makes them, and   *)
(* the lock made with a websocket has its number.  A lock has an owner and  *)
(* the queue of the tasks waiting for it (asyncio.Lock: a task takes a free *)
(* lock without waiting only when nobody waits for it).  A task runs one    *)
(* call of the manager at a time and is suspended only at an await that     *)
(* waits: websocket.accept, the lock, send_json, receive_json.              *)

NoEntries == [k \in {} |-> 0]

Tasks == {"t1", "t2", "t3"}

IdleTask ==
    [op |-> "none", sid |-> "none", pc |-> "idle", ws |-> 0, lock |-> 0, result |-> "none",
     line |-> 0]

(* del d[key] when key is in d *)
Drop(d, key) == [k \in DOMAIN d \ {key} |-> d[k]]

(* A slip: disconnect forgets every session. *)
disconnect_all(d, sid) == NoEntries

(* websocket_manager.py 25-31, for one of the two dicts. *)
disconnect(d, sid) == Drop(d, sid)

(* The task returns res from the statement at the line ln of the source. *)
Returned(t, res, ln) ==
    [tasks EXCEPT ![t].pc = "idle", ![t].ws = 0, ![t].lock = 0, ![t].result = res,
                  ![t].line = ln]

(* A slip: the exception of a failed send leaves send_message. *)
send_raises(conns, sid) ==
    [connections |-> conns.connections, locks |-> conns.locks, result |-> "raised", line |-> 41]

(* A slip: the handler of a failed send forgets the connection and keeps    *)
(* the lock.                                                                *)
send_failed_keeps_lock(conns, sid) ==
    [connections |-> disconnect(conns.connections, sid), locks |-> conns.locks,
     result |-> "false", line |-> 46]

(* websocket_manager.py 43-46: the handler of a failed send disconnects the *)
(* session and returns False.                                               *)
send_failed(conns, sid) ==
    [connections |-> disconnect(conns.connections, sid),
     locks |-> disconnect(conns.locks, sid),
     result |-> "false", line |-> 46]

-----------------------------------------------------------------------------
(* Specification of the content shield: a document is drawn, shielded and  *)
(* restored.                                                                *)

ShieldAlphabet ==
    {"<svg>", "</svg>", "<script>", "</script>", "<style>", "</style>",
     "<meta>", "<link>", "<!--", "-->", "x"}

(* The parts of the state a specification does not use stay as they are. *)
ShieldIdle ==
    /\ shield_pc = "off"
    /\ html = <<>>
    /\ processed_html = <<>>
    /\ replacements = <<>>
    /\ calls = <<>>
    /\ restored_html = <<>>

ParseIdle ==
    /\ parse_pc = "off"
    /\ payload = <<>>
    /\ fence = "none"
    /\ oracle = "text"
    /\ text = <<>>
    /\ generation = Generation("none", <<>>, <<>>)
    /\ debug_file = FALSE

NoResult == ProcessingResult("none", <<>>, <<>>)

EditIdle ==
    /\ edit_pc = "off"
    /\ edit_session = [html |-> <<>>, current_processed_html |-> <<>>, replacements |-> <<>>]
    /\ edit_text = <<>>
    /\ patch_answer = "echo"
    /\ patch_output = <<>>
    /\ final_html = <<>>
    /\ edit_result = NoResult
    /\ edit_snapshots = <<>>

NoRequest ==
    [sid |-> "none", found |-> FALSE, query |-> <<>>, screenshot |-> <<>>, how |-> "none",
     text |-> <<>>, patch |-> "none"]

SessionIdle ==
    /\ store = EmptyStore
    /\ requests = 0
    /\ request = NoRequest
    /\ returned = NoResult
    /\ oracle_calls = 0
    /\ patch_calls = 0
    /\ snapshots = <<>>
    /\ prompt = NoPrompt

WsIdle ==
    /\ connections = NoEntries
    /\ locks = NoEntries
    /\ lock_owner = NoEntries
    /\ lock_waiters = NoEntries
    /\ tasks = [t \in Tasks |-> IdleTask]
    /\ next_ws = 1

Handlers == {"h1", "h2"}

NoGeneration == [status |-> "none", message |-> <<>>, edits |-> <<>>]

IdleHandler ==
    [pc |-> "idle", sid |-> "none", query |-> <<>>, answer |-> [how |-> "none", text |-> <<>>],
     patch |-> "none", start |-> EmptyStore, generation |-> NoGeneration,
     new_processed_html |-> <<>>, result |-> NoResult]

ConcIdle ==
    /\ handlers = [h \in Handlers |-> IdleHandler]
    /\ running = "none"

Threads == {"a", "b"}

IdleThread == [op |-> "none", key |-> "none", data |-> None, pc |-> "idle", result |-> None]

DbIdle ==
    /\ db_lock = "free"
    /\ db_threads = [t \in Threads |-> IdleThread]

ShieldInit ==
    /\ html \in SeqsUpTo(ShieldAlphabet, MaxDocLen)
    /\ shield_pc = "input"
    /\ processed_html = <<>>
    /\ replacements = <<>>
    /\ calls = <<>>
    /\ restored_html = <<>>
    /\ ParseIdle
    /\ EditIdle
    /\ SessionIdle
    /\ WsIdle
    /\ ConcIdle
    /\ DbIdle

ProcessHtml ==
    /\ shield_pc = "input"
    /\ LET r == process_html(html) IN
        /\ processed_html' = r.html
        /\ replacements' = r.reps
        /\ calls' = r.calls
    /\ shield_pc' = "shielded"
    /\ UNCHANGED <<html, restored_html, parseVars, editVars, sessionVars, wsVars, concVars, dbVars>>

ReplacementApply ==
    /\ shield_pc = "shielded"
    /\ restored_html' = replacement_apply(processed_html, replacements)
    /\ shield_pc' = "restored"
    /\ UNCHANGED <<html, processed_html, replacements, calls, parseVars, editVars, sessionVars, wsVars, concVars, dbVars>>

ShieldNext == ProcessHtml \/ ReplacementApply

SpecShield == ShieldInit /\ [][ShieldNext]_vars

-----------------------------------------------------------------------------
(* Specification of the response parser: the Oracle answers with a text    *)
(* (a payload, possibly inside a fenced code block), raises, or was never   *)
(* initialised; forward turns that into a Generation.                       *)

OptMember(key, val) == IF val = <<>> THEN <<>> ELSE << <<key, ":", " ">> \o val >>

RECURSIVE JoinWith(_, _)
JoinWith(parts, sep) ==
    IF parts = <<>> THEN <<>>
    ELSE IF Len(parts) = 1 THEN parts[1]
    ELSE parts[1] \o sep \o JoinWith(Tail(parts), sep)

Object(members, layout) ==
    IF layout = "line"
    THEN <<"{">> \o JoinWith(members, <<",", " ">>) \o <<"}">>
    ELSE <<"{", "\n">> \o JoinWith(members, <<",", "\n">>) \o <<"\n", "}">>

(* What the Oracle may write for a field; <<>> leaves the field out. *)
EditsTexts ==
    {<<>>, <<"\"\"">>, <<"\"<style>h1{}</style>\"">>, <<"\"<script>a</script>\"">>,
     <<"\"GENERATION_COMPLETE\"">>, <<"\"x GENERATION_COMPLETE\"">>,
     <<"\"it\\'s\"">>, <<"null">>, <<"5">>, <<"[", "]">>, <<"[", "\"r\"", "]">>,
     <<"[", "\"GENERATION_COMPLETE\"", "]">>,
     <<"{", "\"GENERATION_COMPLETE\"", ":", " ", "\"r\"", "}">>,
     <<"\"<script>a</script>\"", ".replace(\"a\", \"b\")">>}

ReasoningTexts == {<<>>, <<"\"\"">>, <<"\"r\"">>, <<"null">>}

NoteTexts == {<<>>, <<"\"n\"">>}

Leads == {<<>>, <<"Sure:", "\n">>}

Trails == {<<>>, <<"\n", "{", "\"note\"", ":", " ", "\"n\"", "}">>}

Payloads ==
    {lead \o Object(OptMember("\"edits\"", e) \o OptMember("\"reasoning\"", r)
                        \o OptMember("\"note\"", n), layout) \o trail :
        e \in EditsTexts, r \in ReasoningTexts, n \in NoteTexts,
        layout \in {"line", "lines"}, lead \in Leads, trail \in Trails}
    \cup {<<>>, <<"[", "]">>, <<"\"r\"">>, <<"null">>}

Fences == {"none", "bare", "json", "json_ws", "js"}

(* The payload inside a fenced code block. *)
Wrap(f, p) ==
    CASE f = "none" -> p
      [] f = "bare" -> <<"<fence>", "\n">> \o p \o <<"\n", "<fence>">>
      [] f = "json" -> <<"<fence>json", "\n">> \o p \o <<"\n", "<fence>">>
      [] f = "json_ws" -> <<" ", "<fence>json", "\n">> \o p \o <<"\n", "<fence>", "\n">>
      [] f = "js" -> <<"<fence>js", "\n">> \o p \o <<"\n", "<fence>">>

ParseInit ==
    /\ parse_pc = "ready"
    /\ \/ oracle = "text" /\ payload \in Payloads /\ fence \in Fences
       \/ oracle \in {"raises", "no_client"} /\ payload = <<>> /\ fence = "none"
    /\ text = Wrap(fence, payload)
    /\ generation = Generation("none", <<>>, <<>>)
    /\ debug_file = FALSE
    /\ ShieldIdle
    /\ EditIdle
    /\ SessionIdle
    /\ WsIdle
    /\ ConcIdle
    /\ DbIdle

Forward ==
    /\ parse_pc = "ready"
    /\ LET o == forward(oracle, text) IN
        /\ generation' = o.generation
        /\ debug_file' = o.dump
    /\ parse_pc' = "done"
    /\ UNCHANGED <<payload, fence, oracle, text, shieldVars, editVars, sessionVars, wsVars, concVars, dbVars>>

ParseNext == Forward

SpecParse == ParseInit /\ [][ParseNext]_vars

-----------------------------------------------------------------------------
(* Specification of the edit pipeline: _apply_edit on a session whose       *)
(* document was shielded by process_html, for edit instructions and an      *)
(* answer of the Patch Collaborator.                                        *)

(* <meta> is shielded alone: behind a script tag that is not closed it puts *)
(* a placeholder inside a script span of the patch output.                  *)
EditAlphabet == {"<body>", "</body>", "</BODY>", "<script>", "</script>", "<meta>", "x"}

EditInstructions ==
    {<<"<script>", "x", "</script>">>,
     <<"<script src=a>", "</script>">>,
     <<"<h1>Hi</h1>">>,
     <<"<script>", "x", "</script>", "<script src=a>", "</script>">>}

(* The session _apply_edit is called on.  In a request it is the record of *)
(* create_agent_session after _add_user_message wrote the user turn and the *)
(* status "processing" (agent.py 96-103); a caller that passes the record   *)
(* as create_agent_session made it passes one without conversation_history. *)
EditSessionId == "s1"

EditQuery == <<"make it blue">>

ShieldedSession(d, in_request) ==
    LET created == create_agent_session(EmptyStore, EditSessionId, d, EditQuery,
                                        PyInt(DefaultMaxIterations))[EditSessionId]
    IN IF in_request
       THEN Merge(created,
                  [conversation_history |-> <<UserMessage(EditSessionId, EditQuery, <<>>)>>,
                   status |-> "processing"])
       ELSE created

(* The Generation of the edit: llm.py 364-367 with the reasoning "r". *)
EditGeneration(edits) == Generation("applied_edit", <<"r">>, <<edits>>)

EditInit ==
    /\ edit_pc = "ready"
    /\ \E d \in SeqsUpTo(EditAlphabet, MaxEditLen), in_request \in BOOLEAN :
          edit_session = ShieldedSession(d, in_request)
    /\ edit_text \in EditInstructions
    /\ patch_answer \in MorphAnswers
    /\ patch_output = <<>>
    /\ final_html = <<>>
    /\ edit_result = NoResult
    /\ edit_snapshots = <<>>
    /\ ShieldIdle
    /\ ParseIdle
    /\ SessionIdle
    /\ WsIdle
    /\ ConcIdle
    /\ DbIdle

(* agent.py 128-227: one call of _apply_edit on the stored session.  The    *)
(* exception of morph_apply (line 131) leaves the call before anything is   *)
(* written; a record without conversation_history makes line 206 raise      *)
(* KeyError after the final document was computed and before it is stored;  *)
(* otherwise the agent turn, the two documents, the status and the message  *)
(* are stored (206-218), the snapshot is written (223) and the result is    *)
(* returned (225-227).  patch_output and final_html are the locals          *)
(* new_processed_html and new_html when the call ends.                      *)
ApplyEdit ==
    /\ edit_pc = "ready"
    /\ IF patch_answer = "raise"
       THEN /\ edit_pc' = "raised"
            /\ UNCHANGED <<edit_session, patch_output, final_html, edit_result, edit_snapshots>>
       ELSE \E out \in {morph_apply(patch_answer, edit_session.current_processed_html, edit_text)} :
            \E new_html \in {FinalHtml(out, edit_session.replacements, edit_text)} :
               /\ patch_output' = out
               /\ final_html' = new_html
               /\ IF "conversation_history" \notin DOMAIN edit_session
                  THEN /\ edit_pc' = "key_error"
                       /\ UNCHANGED <<edit_session, edit_result, edit_snapshots>>
                  ELSE \E g \in {EditGeneration(edit_text)} :
                       \E after \in {update_session(
                                        DbSet(EmptyStore, EditSessionId, edit_session),
                                        EditSessionId,
                                        [current_html |-> new_html,
                                         current_processed_html |-> out,
                                         conversation_history |->
                                             Append(edit_session.conversation_history,
                                                    AgentMessage(g)),
                                         status |-> "ready",
                                         message |-> g.message])} :
                          /\ edit_session' = after[EditSessionId]
                          /\ edit_snapshots' = save_session_file(after, EditSessionId)
                          /\ edit_result' = ProcessingResult("success", g.message, <<new_html>>)
                          /\ edit_pc' = "done"
    /\ UNCHANGED <<edit_text, patch_answer, shieldVars, parseVars, sessionVars, wsVars, concVars, dbVars>>

EditNext == ApplyEdit

SpecEdit == EditInit /\ [][EditNext]_vars

-----------------------------------------------------------------------------
(* Specification of the sessions: sessions are created, by the route or by  *)
(* a direct call, and requests are handled one after the other.  Session    *)
(* ids are fresh (routes.py 118 draws a uuid4).  The share routes keep      *)
(* their configurations in the same store, and db.clear empties it.         *)

SessionIds == {"s1"}

(* An id no session is ever made for. *)
UnknownIds == {"s0"}

Htmls ==
    {<<"<body>", "<h1>Hi</h1>", "</body>">>,
     <<"<body>", "<script>", "x", "</script>", "</body>">>}

Queries == {<<"make it blue">>}

(* What the Oracle writes: an object with the edits and a reasoning. *)
Reply(e) == Object(OptMember("\"edits\"", <<e>>) \o OptMember("\"reasoning\"", <<"\"r\"">>), "line")

OracleAnswers ==
    {[how |-> "text", text |-> Reply(e)] :
         e \in {"\"<style>h1{}</style>\"", "\"<script>a</script>\"",
                "\"GENERATION_COMPLETE\"", "\"\""}}
    \cup {[how |-> "text", text |-> <<"null">>],
          [how |-> "raises", text |-> <<>>],
          [how |-> "no_client", text |-> <<>>]}

Init ==
    /\ SessionIdle
    /\ WsIdle
    /\ ConcIdle
    /\ DbIdle
    /\ ShieldIdle
    /\ ParseIdle
    /\ EditIdle

(* routes.py 115-139: the route passes the initial screenshot of the        *)
(* request, None or a text, in the place of max_iterations.                 *)
StartAgentSession ==
    \E sid \in SessionIds \ DOMAIN store, d \in Htmls, q \in Queries,
       initial_screenshot \in {PyNone, PyStr} :
        /\ store' = create_agent_session(store, sid, d, q, initial_screenshot)
        /\ UNCHANGED <<requests, request, returned, oracle_calls, patch_calls, snapshots, prompt>>
        /\ UNCHANGED <<shieldVars, parseVars, editVars, wsVars, concVars, dbVars>>

(* utils.py 205-234 called directly, with one edit allowed: max_iterations  *)
(* is stored and read by no code, so one value stands for the integers.     *)
CreateAgentSession ==
    \E sid \in SessionIds \ DOMAIN store, d \in Htmls, q \in Queries,
       max_iterations \in {PyInt(1)} :
        /\ store' = create_agent_session(store, sid, d, q, max_iterations)
        /\ UNCHANGED <<requests, request, returned, oracle_calls, patch_calls, snapshots, prompt>>
        /\ UNCHANGED <<shieldVars, parseVars, editVars, wsVars, concVars, dbVars>>

(* utils.py 242-253: update_session(sid, {"conversation_history": []}), a   *)
(* caller giving a created session the turn log the request handler reads;  *)
(* no code of the repository does it.                                       *)
InitConversationHistory ==
    \E sid \in DOMAIN store \cap SessionIds :
        /\ "conversation_history" \notin DOMAIN store[sid]
        /\ store' = update_session(store, sid, [conversation_history |-> <<>>])
        /\ UNCHANGED <<requests, request, returned, oracle_calls, patch_calls, snapshots, prompt>>
        /\ UNCHANGED <<shieldVars, parseVars, editVars, wsVars, concVars, dbVars>>

(* agent.py 30-62: one request, with what the Oracle and the Patch          *)
(* Collaborator answer if they are called.  The request variable keeps the  *)
(* session id, whether the store held it, and the answers of the            *)
(* collaborators that were called ("none" for one that was not).  A session *)
(* that is not in the store makes the handler return before it looks at the *)
(* screenshot.  The answer of a collaborator is drawn when the request      *)
(* calls it: whether it does is seen on the run in which the collaborator   *)
(* raises.                                                                  *)
ScreenshotsRead(sid) == IF NotSession(store, sid) THEN {<<>>} ELSE Screenshots

OracleRaises == [how |-> "raises", text |-> <<>>]

(* What the Patch Collaborator answers to a request: it raises, returns the *)
(* document as it was, or returns it with the update before </body>.        *)
RequestPatches == {"raise", "echo", "insert"}

AnswersAsked(sid, q, screenshot) ==
    IF process_user_request(store, sid, q, screenshot, OracleRaises, "raise").prompt # NoPrompt
    THEN OracleAnswers ELSE {OracleRaises}

PatchesAsked(sid, q, screenshot, answer) ==
    IF process_user_request(store, sid, q, screenshot, answer, "raise").patch_calls > 0
    THEN RequestPatches ELSE {"raise"}

ProcessUserRequest ==
    /\ requests < MaxRequests
    /\ \E sid \in SessionIds \cup UnknownIds, q \in Queries :
       \E screenshot \in ScreenshotsRead(sid) :
       \E answer \in AnswersAsked(sid, q, screenshot) :
       \E patch \in PatchesAsked(sid, q, screenshot, answer) :
        /\ \E run \in {process_user_request(store, sid, q, screenshot, answer, patch)} :
              /\ store' = run.store
              /\ returned' = run.result
              /\ oracle_calls' = run.oracle_calls
              /\ patch_calls' = run.patch_calls
              /\ snapshots' = run.snapshots
              /\ prompt' = run.prompt
              /\ request' = [sid |-> sid, found |-> ~NotSession(store, sid), query |-> q,
                             screenshot |-> IF NotSession(store, sid) THEN <<>> ELSE screenshot,
                             how |-> IF run.prompt # NoPrompt THEN answer.how ELSE "none",
                             text |-> IF run.prompt # NoPrompt THEN answer.text ELSE <<>>,
                             patch |-> IF run.patch_calls > 0 THEN patch ELSE "none"]
        /\ requests' = requests + 1
        /\ UNCHANGED <<shieldVars, parseVars, editVars, wsVars, concVars, dbVars>>

(* routes.py 143-201 and models.py 37-45: the shared configurations live in *)
(* the same store under the keys "share:<id>", the id drawn fresh (uuid4).   *)
(* A record keeps the fields of SharedConfiguration without its id and its  *)
(* creation time; expires_at is "none" or "date".  The responses of the     *)
(* share routes are not kept.                                               *)
ShareIds == {"a1"}

ShareKey(share_id) == "share:" \o share_id

ShareUrls == {<<"https://example.com/">>}

ShareHtmls == {<<"<body>", "x", "</body>">>}

(* expires_in_days of the request: None or 0 for a share that does not     *)
(* expire, and the default of 30 days.                                      *)
ExpiresInDays == {PyNone, PyInt(0), PyInt(30)}

SharedConfiguration(url, d, title, expires_at, view_count) ==
    [original_url |-> url, modified_html |-> d, title |-> title, description |-> PyNone,
     expires_at |-> expires_at, view_count |-> view_count]

(* POST /api/share, routes.py 143-201 *)
CreateSharedConfiguration ==
    \E share_id \in ShareIds, url \in ShareUrls, d \in ShareHtmls, days \in ExpiresInDays :
        /\ ShareKey(share_id) \notin DOMAIN store
        /\ store' = DbSet(store, ShareKey(share_id),
                          SharedConfiguration(url, d, <<"t">>,
                              IF days.t = "int" /\ days.n # 0 THEN "date" ELSE "none", 0))
        /\ UNCHANGED <<requests, request, returned, oracle_calls, patch_calls, snapshots, prompt>>
        /\ UNCHANGED <<shieldVars, parseVars, editVars, wsVars, concVars, dbVars>>

(* GET /api/share/{share_id}, routes.py 204-253: 404, and no change, for a  *)
(* key the store does not hold or holds with None; a configuration whose    *)
(* expiry date has passed (the clock decides) is overwritten with None and  *)
(* answered with 410; otherwise the view is counted and the configuration   *)
(* returned.                                                                *)
GetSharedConfiguration ==
    \E share_id \in ShareIds, expired \in BOOLEAN :
        /\ IF ShareKey(share_id) \notin DOMAIN store \/ store[ShareKey(share_id)] = None
           THEN /\ ~expired
                /\ UNCHANGED store
           ELSE LET config == store[ShareKey(share_id)] IN
                IF expired
                THEN /\ config.expires_at = "date"
                     /\ store' = DbSet(store, ShareKey(share_id), None)
                ELSE /\ config.view_count < MaxViews
                     /\ store' = DbSet(store, ShareKey(share_id),
                                       [config EXCEPT !.view_count = @ + 1])
        /\ UNCHANGED <<requests, request, returned, oracle_calls, patch_calls, snapshots, prompt>>
        /\ UNCHANGED <<shieldVars, parseVars, editVars, wsVars, concVars, dbVars>>

(* db.py 23-26: clear() empties the store and nothing else: what the last   *)
(* request returned and the session file it wrote stay.                     *)
DbClear ==
    /\ store # EmptyStore
    /\ store' = EmptyStore
    /\ UNCHANGED <<requests, request, returned, oracle_calls, patch_calls, snapshots, prompt>>
    /\ UNCHANGED <<shieldVars, parseVars, editVars, wsVars, concVars, dbVars>>

Next ==
    \/ StartAgentSession
    \/ CreateAgentSession
    \/ InitConversationHistory
    \/ ProcessUserRequest
    \/ CreateSharedConfiguration
    \/ GetSharedConfiguration
    \/ DbClear

Spec == Init /\ [][Next]_vars

(* The calls the code of the repository makes: the routes, the request      *)
(* handler and db.clear, without the direct update_session that gives a     *)
(* record its turn log.                                                     *)
RoutesNext ==
    \/ StartAgentSession
    \/ CreateAgentSession
    \/ ProcessUserRequest
    \/ CreateSharedConfiguration
    \/ GetSharedConfiguration
    \/ DbClear

SpecRoutes == Init /\ [][RoutesNext]_vars

-----------------------------------------------------------------------------
(* Specification of concurrent requests: the requests of a session are      *)
(* tasks of one event loop.  A request is issued (its task is made), then   *)
(* its handler runs statement by statement; the loop gives the control to   *)
(* another task only when the running one returns or is suspended.  The     *)
(* share routes and db.clear are calls of the specification of the          *)
(* sessions; here the store changes by the requests and the creations only. *)

ConcAnswers ==
    {[how |-> "text", text |-> Reply(e)] :
         e \in {"\"<style>h1{}</style>\"", "\"<script>a</script>\""}}
    \cup {[how |-> "text", text |-> <<"null">>]}

ConcPatches == {"raise", "insert", "append"}

(* A slip: the Patch Collaborator is awaited, and the task is suspended     *)
(* until it answers.                                                        *)
suspends_in_patch(stmt) == stmt = "patch"

(* agent.py 43, 53, 61, 108, 117, 122, 125, 131, 223: the awaits of the     *)
(* handler are awaits of coroutines that never wait, and forward and        *)
(* morph_apply are plain calls: no statement suspends the task.             *)
suspends(stmt) == FALSE

CanRun(h, pc) ==
    /\ handlers[h].pc = pc
    /\ running \in {"none", h}

(* The handler goes on to the statement pc. *)
Goes(h, stmt, pc) ==
    /\ handlers' = [handlers EXCEPT ![h].pc = pc]
    /\ running' = IF suspends(stmt) THEN "none" ELSE h

(* The handler returns res, after it saved the session files saved (agent.py *)
(* 61, 117, 125, 223: _save_session_file is the last statement before the   *)
(* return); snapshots holds the files of the last request that returned.    *)
Returns(h, res, saved) ==
    /\ handlers' = [handlers EXCEPT ![h].pc = "idle", ![h].result = res]
    /\ running' = "none"
    /\ snapshots' = saved

notConcVars == <<shieldVars, parseVars, editVars, wsVars, dbVars>>

requestVars == <<request, returned, oracle_calls, patch_calls, snapshots, prompt>>

(* What the handlers of this specification leave alone: their results are   *)
(* kept in handlers.                                                        *)
resultVars == <<request, returned, oracle_calls, patch_calls, prompt>>

(* routes.py 79-93, agent.py 283-288: a request arrives and its task is     *)
(* made.                                                                    *)
Issue(h) ==
    \E sid \in SessionIds \cup UnknownIds, q \in Queries, answer \in ConcAnswers,
       patch \in ConcPatches :
        /\ handlers[h].pc = "idle"
        /\ requests < MaxRequests
        /\ requests' = requests + 1
        /\ handlers' = [handlers EXCEPT ![h] =
               [IdleHandler EXCEPT !.pc = "read", !.sid = sid, !.query = q,
                                   !.answer = answer, !.patch = patch]]
        /\ UNCHANGED <<store, running, requestVars, notConcVars>>

(* agent.py 36-39: an unknown session is answered at once, and no file is   *)
(* saved.                                                                   *)
ReadSession(h) ==
    /\ CanRun(h, "read")
    /\ IF NotSession(store, handlers[h].sid)
       THEN /\ handlers' = [handlers EXCEPT ![h].pc = "idle", ![h].start = store,
                   ![h].result = ProcessingResult("error", <<"Session not found">>, <<>>)]
            /\ running' = "none"
            /\ snapshots' = <<>>
       ELSE /\ handlers' = [handlers EXCEPT ![h].pc = "add_user_message", ![h].start = store]
            /\ running' = IF suspends("read") THEN "none" ELSE h
            /\ UNCHANGED snapshots
    /\ UNCHANGED <<store, requests, resultVars, notConcVars>>

(* agent.py 43, 64-103, and 56-62 when it raises: the handler of the       *)
(* exception saves the session file and returns.                            *)
AddUserMessage(h) ==
    /\ CanRun(h, "add_user_message")
    /\ \E a \in {add_user_message(store, handlers[h].sid, handlers[h].query, <<>>)} :
          IF a.raised
          THEN /\ \E run \in {Caught(store, handlers[h].sid, a.why, 0, 0, NoPrompt)} :
                      Returns(h, run.result, run.snapshots)
               /\ UNCHANGED store
          ELSE /\ store' = a.store
               /\ Goes(h, "add_user_message", "get_prompt")
               /\ UNCHANGED snapshots
    /\ UNCHANGED <<requests, resultVars, notConcVars>>

(* agent.py 46-50, 107: the record is read again and the prompt made. *)
GetPrompt(h) ==
    /\ CanRun(h, "get_prompt")
    /\ IF NotSession(store, handlers[h].sid)
       THEN Returns(h, ProcessingResult("error", <<"Session not found after update">>, <<>>),
                    <<>>)
       ELSE Goes(h, "get_prompt", "forward") /\ UNCHANGED snapshots
    /\ UNCHANGED <<store, requests, resultVars, notConcVars>>

(* agent.py 108: llm.forward, the call of the Oracle and the parser. *)
CallForward(h) ==
    /\ CanRun(h, "forward")
    /\ handlers' = [handlers EXCEPT
           ![h].pc = "generation",
           ![h].generation = forward(handlers[h].answer.how, handlers[h].answer.text).generation]
    /\ running' = IF suspends("forward") THEN "none" ELSE h
    /\ UNCHANGED <<store, requests, requestVars, notConcVars>>

(* agent.py 114-126, 131: an error and an answer without edits save the    *)
(* session file and return; an edit is sent to the Patch Collaborator with  *)
(* the current shielded document of the record, and its failure is caught   *)
(* (56-62).                                                                 *)
HandleGeneration(h) ==
    /\ CanRun(h, "generation")
    /\ LET g == handlers[h].generation
           session == store[handlers[h].sid]
       IN IF g.status = "error"
          THEN Returns(h, ProcessingResult("error", g.message, <<>>),
                       save_session_file(store, handlers[h].sid))
          ELSE IF g.edits = <<>> \/ g.edits[1] = <<>>
          THEN Returns(h, ProcessingResult("success", g.message, <<>>),
                       save_session_file(store, handlers[h].sid))
          ELSE IF handlers[h].patch = "raise"
          THEN \E run \in {Caught(store, handlers[h].sid, "Morph API error", 1, 1, NoPrompt)} :
                   Returns(h, run.result, run.snapshots)
          ELSE /\ handlers' = [handlers EXCEPT
                      ![h].pc = "update",
                      ![h].new_processed_html =
                          morph_apply(handlers[h].patch, session.current_processed_html,
                                      g.edits[1])]
               /\ running' = IF suspends("patch") THEN "none" ELSE h
               /\ UNCHANGED snapshots
    /\ UNCHANGED <<store, requests, resultVars, notConcVars>>

(* agent.py 143-227: the document is restored, the record updated with the  *)
(* patch output, the final document and the agent turn, the session file    *)
(* saved and the result returned.                                           *)
UpdateSession(h) ==
    /\ CanRun(h, "update")
    /\ LET g == handlers[h].generation
           sid == handlers[h].sid
           session == store[sid]
           new_html == FinalHtml(handlers[h].new_processed_html, session.replacements,
                                 g.edits[1])
       IN /\ store' = update_session(store, sid,
                          [current_html |-> new_html,
                           current_processed_html |-> handlers[h].new_processed_html,
                           conversation_history |->
                               Append(session.conversation_history, AgentMessage(g)),
                           status |-> "ready",
                           message |-> g.message])
          /\ Returns(h, ProcessingResult("success", g.message, <<new_html>>),
                     save_session_file(store', sid))
    /\ UNCHANGED <<requests, resultVars, notConcVars>>

(* The routes and callers that make a session run on the same loop, when   *)
(* no handler is running.                                                   *)
ConcCreateAgentSession == running = "none" /\ CreateAgentSession

ConcInitConversationHistory == running = "none" /\ InitConversationHistory

ConcNext ==
    \/ ConcCreateAgentSession
    \/ ConcInitConversationHistory
    \/ \E h \in Handlers : Issue(h)
    \/ \E h \in Handlers : ReadSession(h)
    \/ \E h \in Handlers : AddUserMessage(h)
    \/ \E h \in Handlers : GetPrompt(h)
    \/ \E h \in Handlers : CallForward(h)
    \/ \E h \in Handlers : HandleGeneration(h)
    \/ \E h \in Handlers : UpdateSession(h)

SpecConc == Init /\ [][ConcNext]_vars

-----------------------------------------------------------------------------
(* Specification of the store: threads call db.get, db.set and db.clear,    *)
(* which take the one lock of the module (db.py 6) around their access to   *)
(* _storage; a thread can lose the processor between any two of its steps.  *)
(* db.list_keys only reads the keys, under the same lock.                   *)

DbKeys == {"s1", "s2"}

DbValues == {[status |-> "created"], [status |-> "ready"]}

notDbVars == <<shieldVars, parseVars, editVars, wsVars, concVars, requests, requestVars>>

(* db.py 9-10: a thread calls get(key). *)
DbCallGet(t, key) ==
    /\ db_threads[t].pc = "idle"
    /\ db_threads' = [db_threads EXCEPT ![t] =
           [IdleThread EXCEPT !.op = "get", !.key = key, !.pc = "acquire"]]
    /\ UNCHANGED <<store, db_lock, notDbVars>>

(* db.py 16-17: a thread calls set(key, data). *)
DbCallSet(t, key, data) ==
    /\ db_threads[t].pc = "idle"
    /\ db_threads' = [db_threads EXCEPT ![t] =
           [IdleThread EXCEPT !.op = "set", !.key = key, !.data = data, !.pc = "acquire"]]
    /\ UNCHANGED <<store, db_lock, notDbVars>>

(* db.py 23-24: a thread calls clear(). *)
DbCallClear(t) ==
    /\ db_threads[t].pc = "idle"
    /\ db_threads' = [db_threads EXCEPT ![t] =
           [IdleThread EXCEPT !.op = "clear", !.pc = "acquire"]]
    /\ UNCHANGED <<store, db_lock, notDbVars>>

(* db.py 11, 18, 25: with _lock, entered when the lock is free. *)
DbAcquire(t) ==
    /\ db_threads[t].pc = "acquire"
    /\ db_lock = "free"
    /\ db_lock' = t
    /\ db_threads' = [db_threads EXCEPT ![t].pc = "locked"]
    /\ UNCHANGED <<store, notDbVars>>

(* db.py 12, 19, 26: _storage.get(key), _storage[key] = data, or            *)
(* _storage.clear().                                                        *)
DbAccess(t) ==
    /\ db_threads[t].pc = "locked"
    /\ CASE db_threads[t].op = "get" ->
              /\ db_threads' = [db_threads EXCEPT
                     ![t].pc = "release",
                     ![t].result = IF db_threads[t].key \in DOMAIN store
                                   THEN store[db_threads[t].key] ELSE None]
              /\ UNCHANGED store
         [] db_threads[t].op = "set" ->
              /\ store' = DbSet(store, db_threads[t].key, db_threads[t].data)
              /\ db_threads' = [db_threads EXCEPT ![t].pc = "release"]
         [] db_threads[t].op = "clear" ->
              /\ store' = EmptyStore
              /\ db_threads' = [db_threads EXCEPT ![t].pc = "release"]
    /\ UNCHANGED <<db_lock, notDbVars>>

(* db.py 13, 20: the return leaves the with block and frees the lock. *)
DbRelease(t) ==
    /\ db_threads[t].pc = "release"
    /\ db_lock' = "free"
    /\ db_threads' = [db_threads EXCEPT ![t].pc = "idle"]
    /\ UNCHANGED <<store, notDbVars>>

DbNext ==
    \/ \E t \in Threads, key \in DbKeys : DbCallGet(t, key)
    \/ \E t \in Threads, key \in DbKeys, data \in DbValues : DbCallSet(t, key, data)
    \/ \E t \in Threads : DbCallClear(t)
    \/ \E t \in Threads : DbAcquire(t)
    \/ \E t \in Threads : DbAccess(t)
    \/ \E t \in Threads : DbRelease(t)

SpecDb == Init /\ [][DbNext]_vars

-----------------------------------------------------------------------------
(* Specification of the observation channel: tasks call connect,            *)
(* disconnect, send_message and receive_message of the one manager, for two *)
(* sessions, and are interleaved at their awaits.                           *)

WsSessions == {"s1", "s2"}

notWsVars == <<shieldVars, parseVars, editVars, sessionVars, concVars, dbVars>>

WsInit ==
    /\ WsIdle
    /\ ConcIdle
    /\ DbIdle
    /\ SessionIdle
    /\ ShieldIdle
    /\ ParseIdle
    /\ EditIdle

Idle(t) == tasks[t].pc = "idle"

Calling(t, op, sid, pc, ws, lock) ==
    [tasks EXCEPT ![t] = [op |-> op, sid |-> sid, pc |-> pc, ws |-> ws, lock |-> lock,
                          result |-> "none", line |-> 0]]

(* The call of op by the task t returns res, at the line ln, without a wait. *)
Call(t, op, sid, res, ln) ==
    [tasks EXCEPT ![t] = [op |-> op, sid |-> sid, pc |-> "idle", ws |-> 0, lock |-> 0,
                          result |-> res, line |-> ln]]

Manager == [connections |-> connections, locks |-> locks]

(* websocket_manager.py 18-20: connect is called with a new websocket and   *)
(* waits for its accept.                                                    *)
Connect(t, sid) ==
    /\ Idle(t)
    /\ next_ws <= MaxConnects
    /\ tasks' = Calling(t, "connect", sid, "accepting", next_ws, 0)
    /\ next_ws' = next_ws + 1
    /\ UNCHANGED <<connections, locks, lock_owner, lock_waiters>>
    /\ UNCHANGED notWsVars

(* websocket_manager.py 21-23: the websocket and a new lock are registered. *)
Accepted(t) ==
    /\ tasks[t].pc = "accepting"
    /\ connections' = DbSet(connections, tasks[t].sid, tasks[t].ws)
    /\ locks' = DbSet(locks, tasks[t].sid, tasks[t].ws)
    /\ lock_owner' = DbSet(lock_owner, tasks[t].ws, "free")
    /\ lock_waiters' = DbSet(lock_waiters, tasks[t].ws, <<>>)
    /\ tasks' = Returned(t, "none", 23)
    /\ UNCHANGED next_ws
    /\ UNCHANGED notWsVars

(* websocket_manager.py 20: accept raises, and connect with it. *)
AcceptFails(t) ==
    /\ tasks[t].pc = "accepting"
    /\ tasks' = Returned(t, "raised", 20)
    /\ UNCHANGED <<connections, locks, lock_owner, lock_waiters, next_ws>>
    /\ UNCHANGED notWsVars

(* websocket_manager.py 25-31: disconnect has no await that waits. *)
Disconnect(t, sid) ==
    /\ Idle(t)
    /\ connections' = disconnect(connections, sid)
    /\ locks' = disconnect(locks, sid)
    /\ tasks' = Call(t, "disconnect", sid, "none", 31)
    /\ UNCHANGED <<lock_owner, lock_waiters, next_ws>>
    /\ UNCHANGED notWsVars

(* websocket_manager.py 33-41: send_message up to its first wait: it        *)
(* returns False without a connection; it takes the lock of the session and *)
(* starts send_json on the websocket of the session, or waits for the lock. *)
SendMessage(t, sid) ==
    /\ Idle(t)
    /\ IF sid \notin DOMAIN connections
       THEN /\ tasks' = Call(t, "send", sid, "false", 37)
            /\ UNCHANGED <<connections, locks, lock_owner, lock_waiters>>
       ELSE IF sid \notin DOMAIN locks
       THEN /\ \E f \in {send_failed(Manager, sid)} :
                  /\ connections' = f.connections
                  /\ locks' = f.locks
                  /\ tasks' = Call(t, "send", sid, f.result, f.line)
            /\ UNCHANGED <<lock_owner, lock_waiters>>
       ELSE IF lock_owner[locks[sid]] = "free" /\ lock_waiters[locks[sid]] = <<>>
       THEN /\ lock_owner' = [lock_owner EXCEPT ![locks[sid]] = t]
            /\ tasks' = Calling(t, "send", sid, "sending", connections[sid], locks[sid])
            /\ UNCHANGED <<connections, locks, lock_waiters>>
       ELSE /\ lock_waiters' = [lock_waiters EXCEPT ![locks[sid]] = Append(@, t)]
            /\ tasks' = Calling(t, "send", sid, "waiting", 0, locks[sid])
            /\ UNCHANGED <<connections, locks, lock_owner>>
    /\ UNCHANGED next_ws
    /\ UNCHANGED notWsVars

(* websocket_manager.py 40-41: the first task waiting for a free lock takes *)
(* it and starts send_json on the websocket the session has now; without a  *)
(* connection the lookup raises, the lock is released and the handler runs. *)
LockAcquired(t) ==
    /\ tasks[t].pc = "waiting"
    /\ lock_owner[tasks[t].lock] = "free"
    /\ Head(lock_waiters[tasks[t].lock]) = t
    /\ lock_waiters' = [lock_waiters EXCEPT ![tasks[t].lock] = Tail(@)]
    /\ IF tasks[t].sid \in DOMAIN connections
       THEN /\ lock_owner' = [lock_owner EXCEPT ![tasks[t].lock] = t]
            /\ tasks' = [tasks EXCEPT ![t].pc = "sending", ![t].ws = connections[tasks[t].sid]]
            /\ UNCHANGED <<connections, locks>>
       ELSE /\ \E f \in {send_failed(Manager, tasks[t].sid)} :
                  /\ connections' = f.connections
                  /\ locks' = f.locks
                  /\ tasks' = Returned(t, f.result, f.line)
            /\ UNCHANGED lock_owner
    /\ UNCHANGED next_ws
    /\ UNCHANGED notWsVars

(* websocket_manager.py 41-42: send_json returns; the lock is released. *)
Sent(t) ==
    /\ tasks[t].pc = "sending"
    /\ lock_owner' = [lock_owner EXCEPT ![tasks[t].lock] = "free"]
    /\ tasks' = Returned(t, "true", 42)
    /\ UNCHANGED <<connections, locks, lock_waiters, next_ws>>
    /\ UNCHANGED notWsVars

(* websocket_manager.py 41-46: send_json raises; the lock is released and   *)
(* the handler runs.                                                        *)
SendFails(t) ==
    /\ tasks[t].pc = "sending"
    /\ lock_owner' = [lock_owner EXCEPT ![tasks[t].lock] = "free"]
    /\ \E f \in {send_failed(Manager, tasks[t].sid)} :
          /\ connections' = f.connections
          /\ locks' = f.locks
          /\ tasks' = Returned(t, f.result, f.line)
    /\ UNCHANGED <<lock_waiters, next_ws>>
    /\ UNCHANGED notWsVars

(* websocket_manager.py 48-54: receive_message returns None without a       *)
(* connection, or waits for receive_json on the websocket of the session.   *)
ReceiveMessage(t, sid) ==
    /\ Idle(t)
    /\ IF sid \notin DOMAIN connections
       THEN tasks' = Call(t, "receive", sid, "absent", 51)
       ELSE tasks' = Calling(t, "receive", sid, "receiving", connections[sid], 0)
    /\ UNCHANGED <<connections, locks, lock_owner, lock_waiters, next_ws>>
    /\ UNCHANGED notWsVars

(* websocket_manager.py 54: the front end sent a message. *)
Received(t) ==
    /\ tasks[t].pc = "receiving"
    /\ tasks' = Returned(t, "message", 54)
    /\ UNCHANGED <<connections, locks, lock_owner, lock_waiters, next_ws>>
    /\ UNCHANGED notWsVars

(* websocket_manager.py 55-58: receive_json raises; the session is          *)
(* disconnected and None returned.                                          *)
ReceiveFails(t) ==
    /\ tasks[t].pc = "receiving"
    /\ connections' = disconnect(connections, tasks[t].sid)
    /\ locks' = disconnect(locks, tasks[t].sid)
    /\ tasks' = Returned(t, "absent", 58)
    /\ UNCHANGED <<lock_owner, lock_waiters, next_ws>>
    /\ UNCHANGED notWsVars

WsNext ==
    \/ \E t \in Tasks, sid \in WsSessions : Connect(t, sid)
    \/ \E t \in Tasks : Accepted(t)
    \/ \E t \in Tasks : AcceptFails(t)
    \/ \E t \in Tasks, sid \in WsSessions : Disconnect(t, sid)
    \/ \E t \in Tasks, sid \in WsSessions : SendMessage(t, sid)
    \/ \E t \in Tasks : LockAcquired(t)
    \/ \E t \in Tasks : Sent(t)
    \/ \E t \in Tasks : SendFails(t)
    \/ \E t \in Tasks, sid \in WsSessions : ReceiveMessage(t, sid)
    \/ \E t \in Tasks : Received(t)
    \/ \E t \in Tasks : ReceiveFails(t)

SpecWs == WsInit /\ [][WsNext]_vars

(* The scheduling of the event loop and of the transport: a task that can   *)
(* take the lock it waits for runs; accept and send_json end, by returning  *)
(* or by raising. Nothing makes the front end send a message, and no step   *)
(* of receive_message ends the wait for receive_json.                       *)
WsFairness ==
    \A t \in Tasks :
        /\ WF_vars(LockAcquired(t))
        /\ WF_vars(Accepted(t) \/ AcceptFails(t))
        /\ WF_vars(Sent(t) \/ SendFails(t))

SpecWsLive == WsInit /\ [][WsNext]_vars /\ WsFairness

-----------------------------------------------------------------------------
(* Claims about the response parser. *)

(* What the code decoded from the Oracle's text (directly or repaired). *)
Decoded == Decode(StripFence(text))

DecodedObject == parse_pc = "done" /\ oracle = "text" /\ Decoded.ok /\ Decoded.v.t = "obj"

(* The decoded text of a field; the empty text when the field is absent. *)
FieldText(f) == IF f.t = "str" THEN f.s ELSE <<>>

IsTextOrAbsent(f) == f.t \in {"str", "missing"}

SentinelIn(s) == \E i \in 1..Len(s) : s[i] = "GENERATION_COMPLETE"

(* The Generation C4 describes for a decoded object. *)
C4_Expected(obj) ==
    IF obj.edits.t = "str" /\ SentinelIn(obj.edits.s)
    THEN /\ generation.status = "completed"
         /\ generation.edits = <<>>
    ELSE /\ generation.status = "applied_edit"
         /\ generation.edits = <<FieldText(obj.edits)>>
         /\ generation.message = FieldText(obj.reasoning)

(* C4: every decoded object that carries at least one of edits / reasoning  *)
(* (as text) gives completed exactly when edits holds the sentinel, and     *)
(* applied_edit with the decoded edits and reasoning otherwise.             *)
C4_AnyCarriedField ==
    (/\ DecodedObject
     /\ IsTextOrAbsent(Decoded.v.edits) /\ IsTextOrAbsent(Decoded.v.reasoning)
     /\ (Decoded.v.edits.t = "str" \/ Decoded.v.reasoning.t = "str"))
        => C4_Expected(Decoded.v)

(* C5: a text that decodes to an object with neither an edits nor a         *)
(* reasoning field gives a Generation with status error.                    *)
C5_NeitherFieldIsError ==
    (/\ DecodedObject
     /\ Decoded.v.edits.t = "missing"
     /\ Decoded.v.reasoning.t = "missing")
        => generation.status = "error"

(* C5 witness: a non-empty object with neither field, answered by error.    *)
C5_Witness ==
    /\ DecodedObject
    /\ Decoded.v.truthy
    /\ Decoded.v.edits.t = "missing"
    /\ Decoded.v.reasoning.t = "missing"
    /\ generation.status = "error"

(* What C24 calls a parser failure: the text does not decode even after    *)
(* the repair chain, or decodes to a value that is not an object, or to an  *)
(* object without edits and reasoning, or with edits that are not text.     *)
ParserFailure ==
    /\ parse_pc = "done"
    /\ oracle = "text"
    /\ \/ ~Decoded.ok
       \/ Decoded.v.t # "obj"
       \/ Decoded.v.edits.t = "missing" /\ Decoded.v.reasoning.t = "missing"
       \/ ~IsTextOrAbsent(Decoded.v.edits)

(* C24: every parser failure gives a Generation with status error, and the  *)
(* write of the debug dump is attempted.                                    *)
C24_FailureDumps == ParserFailure => generation.status = "error" /\ debug_file

(* The text the repair chain has after its escape fixes, in lines. *)
CleanedLines == SplitLines(FixEscapes(StripFence(text)), <<>>)

(* The truncation step of the repair chain runs: the first decode failed    *)
(* and the text calls a JavaScript method or has more than one brace.       *)
Truncates ==
    /\ parse_pc = "done"
    /\ oracle = "text"
    /\ ~JsonLoads(StripFence(text)).ok
    /\ NeedsCleaning(FixEscapes(StripFence(text)))

(* What the truncation step keeps. *)
Truncated ==
    TakeFirstObject(CleanedLines,
                    [lines |-> <<>>, depth |-> 0, found |-> FALSE, stop |-> FALSE])

(* The brace depth after the lines a..b. *)
RECURSIVE DepthAfter(_, _, _)
DepthAfter(ls, a, b) ==
    IF b < a THEN 0
    ELSE DepthAfter(ls, a, b - 1) + CountOpen(ls[b]) - CountClose(ls[b])

(* The first balanced top-level object: from the first line that begins an  *)
(* object to the line on which the depth first returns to zero (to the last *)
(* line when it never does).                                                *)
FirstBalancedObject(ls) ==
    LET starts == {i \in 1..Len(ls) : StartsObject(ls[i])} IN
    IF starts = {} THEN <<>>
    ELSE LET first == Min(starts)
             ends == {j \in first..Len(ls) : DepthAfter(ls, first, j) = 0}
         IN SubSeq(ls, first, IF ends = {} THEN Len(ls) ELSE Min(ends))

(* C27: when the truncation step runs, it keeps exactly the first balanced  *)
(* top-level object, also when that object opens and closes on one line and *)
(* further objects follow on later lines.                                   *)
C27_TruncatesToFirstObject == Truncates => Truncated = FirstBalancedObject(CleanedLines)

-----------------------------------------------------------------------------
(* Claims about the content shield. *)

(* Every svg, script and style element of d is closed, properly nested. *)
RECURSIVE WellNested(_, _)
WellNested(d, stack) ==
    IF d = <<>> THEN stack = <<>>
    ELSE LET h == Head(d)
             opened == {t \in {"svg", "script", "style"} : IsOpen(t, h)}
             closed == {t \in {"svg", "script", "style"} : IsClose(t, h)}
         IN IF opened # {}
            THEN WellNested(Tail(d), <<CHOOSE t \in opened : TRUE>> \o stack)
            ELSE IF closed # {}
            THEN /\ stack # <<>>
                 /\ Head(stack) \in closed
                 /\ WellNested(Tail(d), Tail(stack))
            ELSE WellNested(Tail(d), stack)

Balanced(d) == WellNested(d, <<>>) /\ WellNested(RemoveComments(d), <<>>)

(* C1: for every balanced document d, replacement_apply(process_html(d)) is *)
(* d with its comment spans removed, also when a span of an earlier         *)
(* category lies inside a span of a later category.                         *)
C1_RoundTrip ==
    (shield_pc = "restored" /\ Balanced(html))
        => restored_html = RemoveComments(html)

(* Number of replace_func calls before the i-th that were for the same tag. *)
EarlierSameTag(cs, i) == Cardinality({j \in 1..(i - 1) : cs[j].tag = cs[i].tag})

(* C2: in one process_html call the spans of each category get the tokens   *)
(* numbered 1, 2, ..., n of that category's own counter, the dict holds one *)
(* entry per replaced span, and no token is issued for two spans.           *)
C2_TokensNumbered ==
    shield_pc # "input" =>
        /\ Len(replacements) = Len(calls)
        /\ Cardinality(DictKeys(replacements)) = Len(calls)
        /\ \A i \in 1..Len(calls) :
            /\ calls[i].n = 1 + EarlierSameTag(calls, i)
            /\ replacements[i].k = calls[i].token
            /\ replacements[i].v = calls[i].span
        /\ \A i, j \in 1..Len(calls) : i # j => calls[i].token # calls[j].token

(* C2 witness: three spans replaced, two of one category, one of another.   *)
C2_Witness ==
    /\ shield_pc = "shielded"
    /\ Len(calls) = 3
    /\ \E i, j \in 1..3 : calls[i].tag # calls[j].tag
    /\ \E i \in 1..3 : calls[i].n = 2

-----------------------------------------------------------------------------
(* Claims about the edit pipeline. *)

(* The positions at which the span starts in the document. *)
Occurrences(d, span) ==
    {i \in 1..Len(d) : i + Len(span) - 1 <= Len(d) /\ SubSeq(d, i, i + Len(span) - 1) = span}

(* The span is followed by the closing body marker, directly or after the   *)
(* line break the insertion writes.                                         *)
BeforeBody(d, i, span) ==
    LET j == i + Len(span) IN
    \/ j <= Len(d) /\ d[j] = "</body>"
    \/ j + 1 <= Len(d) /\ d[j] = "\n" /\ d[j + 1] = "</body>"

(* C3: when the shielded document and the patch output hold no script span  *)
(* and the edit instructions hold exactly one, with or without attributes   *)
(* on its opening tag, the final document holds that span exactly once,     *)
(* immediately before the closing body marker.  Read for a patch output     *)
(* that has exactly one closing body marker.                                *)
C3_DirectScriptBeforeBody ==
    (/\ edit_pc = "done"
     /\ FindScripts(edit_session.processed_html) = <<>>
     /\ FindScripts(patch_output) = <<>>
     /\ Len(FindScripts(edit_text)) = 1
     /\ Cardinality(Occurrences(patch_output, <<"</body>">>)) = 1)
    => LET span == FindScripts(edit_text)[1]
           at == Occurrences(final_html, span)
       IN /\ Cardinality(at) = 1
          /\ \A i \in at : BeforeBody(final_html, i, span)

(* The patch output with the placeholders restored (agent.py 156). *)
CandidateFinal == replacement_apply(patch_output, edit_session.replacements)

(* C26: every script span of the patch output is in the final document, and *)
(* one that the restored document does not hold is there exactly once,      *)
(* immediately before the closing body marker, whatever the document.       *)
C26_SalvagedScriptsKept ==
    edit_pc = "done" =>
        \A k \in 1..Len(FindScripts(patch_output)) :
            LET span == FindScripts(patch_output)[k]
                at == Occurrences(final_html, span)
            IN /\ at # {}
               /\ Occurrences(CandidateFinal, span) = {} =>
                      /\ Cardinality(at) = 1
                      /\ \A i \in at : BeforeBody(final_html, i, span)

-----------------------------------------------------------------------------
(* Claims about the request handler. *)

(* The sessions the store holds; its other keys are shared configurations. *)
StoredSessions == DOMAIN store \cap SessionIds

(* The last request was the first one and found its session in the store. *)
FirstRequestDone == requests = 1 /\ request.found

(* The stored record of the session of the last request. *)
Stored == store[request.sid]

(* A request was handled in this step. *)
RequestStep == requests' = requests + 1

(* The session of the last request is in the store: db.clear() has not      *)
(* emptied it since.                                                        *)
StillStored == request.found /\ request.sid \in DOMAIN store

(* What forward made of the Oracle's answer to the request req. *)
Answered(req) == forward(req.how, req.text).generation

(* The Oracle, if it was called, answered with an edit to apply. *)
NothingButAppliedEdit(req) ==
    req.how # "none" =>
        /\ Answered(req).status = "applied_edit"
        /\ Answered(req).edits # <<>>
        /\ Answered(req).edits[1] # <<>>

(* The Oracle, if it was called, answered with the completion sentinel. *)
NothingButCompleted(req) == req.how # "none" => Answered(req).status = "completed"

(* The Patch Collaborator, if it was called, put the update in the document. *)
PatchSucceeded(req) == req.patch \in {"none", "insert", "append"}

(* The successful edits recorded for a session: its agent turns. *)
RECURSIVE AgentTurns(_)
AgentTurns(history) ==
    IF history = <<>> THEN 0
    ELSE (IF Head(history).role = "agent" THEN 1 ELSE 0) + AgentTurns(Tail(history))

SuccessfulEdits(s) ==
    IF "conversation_history" \in DOMAIN s THEN AgentTurns(s.conversation_history) ELSE 0

(* What the first request req, which returned ret, leaves in the record     *)
(* stored of its session when its edit was applied.                         *)
FirstEditApplied(req, ret, stored) ==
    (/\ stored.replacements = <<>>
     /\ NothingButAppliedEdit(req)
     /\ PatchSucceeded(req))
    => /\ stored.current_iteration = 1
       /\ stored.status = "applied_edit"
       /\ req.how # "none"
       /\ Contains(stored.current_html, Answered(req).edits[1])
       /\ ret.status = "success"
       /\ ret.updated_html = <<stored.current_html>>

(* C7: after the first request on a created session without shielded       *)
(* spans, with an Oracle that answers applied_edit and a Patch Collaborator *)
(* that succeeds, the stored session has current_iteration 1, status        *)
(* applied_edit and a current document holding the inserted text, and the   *)
(* request returned one outcome carrying that document.                     *)
C7_FirstEditApplied ==
    [][(RequestStep /\ requests' = 1 /\ request'.found) =>
           FirstEditApplied(request', returned', store'[request'.sid])]_vars

(* What the first request req, which returned ret after patched calls of    *)
(* the Patch Collaborator, leaves in the record stored of its session when  *)
(* the Oracle answered with the completion sentinel.                        *)
FirstTurnCompletes(req, ret, patched, stored) ==
    NothingButCompleted(req)
    => /\ stored.status = "completed"
       /\ stored.current_iteration = 0
       /\ ret.status = "success"
       /\ ret.updated_html = <<>>
       /\ patched = 0

(* C8: after a first request whose Oracle answers with the completion       *)
(* sentinel in the edits, the stored status is completed, current_iteration *)
(* is still 0, one completed outcome was returned and the Patch             *)
(* Collaborator was not called.                                             *)
C8_FirstTurnCompletes ==
    [][(RequestStep /\ requests' = 1 /\ request'.found) =>
           FirstTurnCompletes(request', returned', patch_calls', store'[request'.sid])]_vars

(* The session has as many successful edits as its max_iterations allows. *)
ReachedMaxIterations(s) ==
    s.max_iterations.t = "int" /\ SuccessfulEdits(s) >= s.max_iterations.n

(* C9: a session that has accumulated max_iterations successful edits has   *)
(* status completed with the fixed message, never error, and a request on   *)
(* it makes no further Oracle call.                                         *)
C9_MaxIterationsCompletes ==
    /\ [](\A sid \in StoredSessions :
            ReachedMaxIterations(store[sid]) =>
                /\ store[sid].status = "completed"
                /\ "message" \in DOMAIN store[sid]
                /\ store[sid].message = <<"reached maximum iterations">>)
    /\ [][\A sid \in StoredSessions :
            (ReachedMaxIterations(store[sid]) /\ requests' = requests + 1 /\ request'.sid = sid)
                => oracle_calls' = 0]_vars

(* C10: when a request on a stored session returns an error, the stored     *)
(* status is error with a message; it is not left at processing (or at any  *)
(* other status).                                                           *)
C10_FailureStoresError ==
    [][(RequestStep /\ request'.found /\ returned'.status = "error") =>
           /\ store'[request'.sid].status = "error"
           /\ "message" \in DOMAIN store'[request'.sid]
           /\ store'[request'.sid].message # <<>>]_vars

(* C11: every request ends with one outcome, a success or an error and      *)
(* never an exception that leaves the handler; when it ends with an error   *)
(* and the session is in the store, a snapshot of that session was written  *)
(* before.                                                                  *)
C11_OneOutcomeAfterSnapshot ==
    request # NoRequest =>
        /\ returned.status \in {"success", "error"}
        /\ (returned.status = "error" /\ request.found) =>
               (Len(snapshots) = 1 /\ snapshots[1].session_id = request.sid)

(* A patch that raised, a screenshot that does not decode: failures of a    *)
(* request whose session is in the store.                                   *)
C11_Witness ==
    /\ request.found
    /\ returned.status = "error"
    /\ patch_calls = 1
    /\ Len(snapshots) = 1

(* C12: a request for an id the store does not hold returns an error        *)
(* without a call to the Oracle or to the Patch Collaborator, without a     *)
(* snapshot and without any change of the store.                            *)
C12_AbsentSessionAborts ==
    [][(RequestStep /\ ~request'.found) =>
          /\ store' = store
          /\ returned'.status = "error"
          /\ oracle_calls' = 0
          /\ patch_calls' = 0
          /\ snapshots' = <<>>]_vars

(* The second request was for an unknown id while the store held a session  *)
(* the first request had worked on.                                         *)
C12_Witness ==
    /\ requests = 2
    /\ ~request.found
    /\ returned.status = "error"
    /\ \E sid \in StoredSessions : store[sid].status # "created"

(* C13: within one request the Oracle is called at most once and the Patch  *)
(* Collaborator at most once, whatever they return or raise.                *)
C13_NoRetry == oracle_calls <= 1 /\ patch_calls <= 1

(* The Patch Collaborator raised, after an Oracle call that succeeded. *)
C13_Witness ==
    /\ request.patch = "raise"
    /\ oracle_calls = 1
    /\ patch_calls = 1
    /\ returned.status = "error"

(* The statuses of the specification, in their order. *)
StatusRank(status) ==
    CASE status = "created" -> 0
      [] status = "processing" -> 1
      [] status = "applied_edit" -> 2
      [] status \in {"completed", "error"} -> 3
      [] OTHER -> 0

(* C14: over the calls of create_agent_session and process_user_request     *)
(* (the routes of the repository), the stored status of a session is always *)
(* one of created, processing, applied_edit, completed and error, and never *)
(* goes backward: completed and error are final, and no earlier status is   *)
(* written after a later one.                                               *)
C14_StatusMonotonic ==
    /\ [](\A sid \in StoredSessions :
            store[sid].status \in {"created", "processing", "applied_edit", "completed", "error"})
    /\ [][\A sid \in StoredSessions :
            sid \in DOMAIN store' =>
                /\ StatusRank(store'[sid].status) >= StatusRank(store[sid].status)
                /\ store[sid].status \in {"completed", "error"} =>
                       store'[sid].status = store[sid].status]_vars

(* Two requests were handled on a session the store still holds, and its    *)
(* status is the one of its creation.                                       *)
C14_Witness ==
    /\ requests = 2
    /\ StillStored
    /\ returned.status = "error"
    /\ Stored.status = "created"

(* C15: for every session, made by the route or by create_agent_session,    *)
(* max_iterations is an integer and 0 <= current_iteration <= max_iterations. *)
C15_IterationBounds ==
    \A sid \in StoredSessions :
        /\ store[sid].max_iterations.t = "int"
        /\ 0 <= store[sid].current_iteration
        /\ store[sid].current_iteration <= store[sid].max_iterations.n

(* C16: the placeholder map of a session is the one process_html returned   *)
(* for the original document at creation, and no step, a request that       *)
(* succeeds or fails included, changes it or the original document.         *)
C16_ReplacementsFrozen ==
    /\ [](\A sid \in StoredSessions :
            store[sid].replacements = process_html(store[sid].html).reps)
    /\ [][\A sid \in StoredSessions :
            /\ RequestStep => sid \in DOMAIN store'
            /\ sid \in DOMAIN store' =>
                   /\ store'[sid].replacements = store[sid].replacements
                   /\ store'[sid].html = store[sid].html]_vars

(* A session with a placeholder after an edit that succeeded and a request  *)
(* that failed.                                                             *)
C16_Witness ==
    /\ requests = 2
    /\ StillStored
    /\ returned.status = "error"
    /\ Stored.replacements # <<>>
    /\ SuccessfulEdits(Stored) = 1

(* C17: an edit that succeeds stores as current_processed_html the output   *)
(* of the Patch Collaborator for the previous current_processed_html and    *)
(* the edits, which is also the document of the prompt; any other request   *)
(* leaves it as it is; before the first edit it is the output of            *)
(* process_html.                                                            *)
C17_BaselineIsPatchOutput ==
    /\ [](\A sid \in StoredSessions :
            SuccessfulEdits(store[sid]) = 0 =>
                store[sid].current_processed_html = process_html(store[sid].html).html)
    /\ [][(RequestStep /\ request'.found) =>
            IF patch_calls' = 1 /\ returned'.status = "success"
            THEN /\ prompt'.file = store[request'.sid].current_processed_html
                 /\ store'[request'.sid].current_processed_html =
                        morph_apply(request'.patch,
                                    store[request'.sid].current_processed_html,
                                    forward(request'.how, request'.text).generation.edits[1])
            ELSE store'[request'.sid].current_processed_html =
                     store[request'.sid].current_processed_html]_vars

(* Two edits succeeded, and the current document is not the restoration of  *)
(* the shielded baseline: the script the fallback put in is in the document *)
(* only.                                                                    *)
C17_Witness ==
    /\ requests = 2
    /\ StillStored
    /\ SuccessfulEdits(Stored) = 2
    /\ Stored.current_html #
           replacement_apply(Stored.current_processed_html, Stored.replacements)

-----------------------------------------------------------------------------
(* Claims about the observation channel. *)

InSendJson(t, sid) == tasks[t].pc = "sending" /\ tasks[t].sid = sid

(* C18: for one session id no two send_message calls are in send_json at    *)
(* the same time, whatever the interleaving of connect, disconnect and      *)
(* send_message for that id.                                                *)
C18_SendsExclusive ==
    \A sid \in WsSessions : \A t, u \in Tasks :
        InSendJson(t, sid) /\ InSendJson(u, sid) => t = u

SendReturned(t) ==
    /\ tasks[t].op = "send"
    /\ tasks[t].pc = "idle"

Unregistered(sid) == sid \notin DOMAIN connections /\ sid \notin DOMAIN locks

(* C19: send_message never raises; a call that finds no connection returns  *)
(* False; a call whose write fails, or whose session is disconnected while  *)
(* it waits for the lock, returns False, and in the state it returns in no  *)
(* connection and no lock is registered for the session.                    *)
C19_SendNeverRaises ==
    /\ [](\A t \in Tasks : SendReturned(t) => tasks[t].result \in {"true", "false"})
    /\ [][\A t \in Tasks :
            tasks'[t] # tasks[t] /\ tasks'[t].op = "send" /\ tasks'[t].pc = "idle" =>
                /\ tasks'[t].result = "false" =>
                       /\ tasks'[t].sid \notin DOMAIN connections'
                       /\ tasks'[t].sid \notin DOMAIN locks'
                /\ tasks[t].pc = "idle" /\ tasks'[t].sid \notin DOMAIN connections =>
                       /\ tasks'[t].result = "false"
                       /\ UNCHANGED <<connections, locks>>
                /\ tasks[t].pc = "waiting" /\ tasks[t].sid \notin DOMAIN connections =>
                       tasks'[t].result = "false"
                /\ tasks'[t].result = "true" => tasks[t].pc = "sending"]_vars

(* One connection was made, and two sends for its session returned False    *)
(* from the handler of the failure: the write of the first failed, and the  *)
(* second, which waited for the lock, found the session disconnected.       *)
C19_Witness ==
    \E t, u \in Tasks :
        /\ t # u
        /\ next_ws = 2
        /\ SendReturned(t) /\ tasks[t].result = "false" /\ tasks[t].line = 46
        /\ SendReturned(u) /\ tasks[u].result = "false" /\ tasks[u].line = 46
        /\ tasks[u].sid = tasks[t].sid
        /\ Unregistered(tasks[t].sid)

(* C20: after disconnect neither a connection nor a lock is registered for  *)
(* the session; the entries of every other session are as before; for a     *)
(* session without entries nothing changes; a second disconnect changes     *)
(* nothing; disconnect does not raise.                                      *)
C20_DisconnectIdempotent ==
    /\ [](\A sid \in WsSessions :
            /\ disconnect(disconnect(connections, sid), sid) = disconnect(connections, sid)
            /\ disconnect(disconnect(locks, sid), sid) = disconnect(locks, sid)
            /\ sid \notin DOMAIN connections => disconnect(connections, sid) = connections
            /\ sid \notin DOMAIN locks => disconnect(locks, sid) = locks)
    /\ [][\A t \in Tasks, sid \in WsSessions :
            Disconnect(t, sid) =>
                /\ sid \notin DOMAIN connections'
                /\ sid \notin DOMAIN locks'
                /\ \A other \in WsSessions \ {sid} :
                       /\ other \in DOMAIN connections <=> other \in DOMAIN connections'
                       /\ other \in DOMAIN locks <=> other \in DOMAIN locks'
                       /\ other \in DOMAIN connections => connections'[other] = connections[other]
                       /\ other \in DOMAIN locks => locks'[other] = locks[other]
                /\ Unregistered(sid) => UNCHANGED <<connections, locks>>
                /\ tasks'[t].result = "none"
                /\ tasks'[t].pc = "idle"]_vars

(* Two tasks called disconnect for a session that a third task is sending   *)
(* to: the session has no entries, the other session has both.              *)
C20_Witness ==
    \E t, u, v \in Tasks : \E sid, other \in WsSessions :
        /\ t # u
        /\ sid # other
        /\ tasks[t].op = "disconnect" /\ tasks[t].sid = sid /\ tasks[t].pc = "idle"
        /\ tasks[u].op = "disconnect" /\ tasks[u].sid = sid /\ tasks[u].pc = "idle"
        /\ InSendJson(v, sid)
        /\ Unregistered(sid)
        /\ other \in DOMAIN connections
        /\ other \in DOMAIN locks

(* C21: a receive always returns in the end: at once and with absent when   *)
(* the session has no connection, and otherwise with a message or, when the *)
(* front end sends none, with absent.                                       *)
C21_ReceiveReturns ==
    /\ [][\A t \in Tasks, sid \in WsSessions :
            ReceiveMessage(t, sid) /\ sid \notin DOMAIN connections =>
                tasks'[t].pc = "idle" /\ tasks'[t].result = "absent"]_vars
    /\ \A t \in Tasks :
           (tasks[t].pc = "receiving") ~> (tasks[t].pc = "idle" /\ tasks[t].op = "receive")

(* The request made an agent turn: it ended with an applied edit. *)
AppendedAgentTurn(ret) == ret.status = "success" /\ ret.updated_html # <<>>

(* The turn log as it was when the request that returned ret made its       *)
(* prompt: the agent turn of the request itself comes later.                *)
TurnsAtPrompt(ret, stored) ==
    IF AppendedAgentTurn(ret)
    THEN SubSeq(stored.conversation_history, 1, Len(stored.conversation_history) - 1)
    ELSE stored.conversation_history

(* The context holds the text of the turn: the content of a user turn, the  *)
(* edit text of an agent turn.                                              *)
Mentions(context, turn) ==
    LET said == IF turn.role = "user" THEN turn.content
                ELSE IF turn.edits = <<>> THEN <<>> ELSE turn.edits[1]
    IN said = <<>> \/ \E j \in 1..Len(context) : context[j] \in Range(said)

(* C25: every user turn and every earlier agent edit that the requests      *)
(* appended to the turn log of the session is in the context of the prompt  *)
(* the next request sends.                                                  *)
C25_PromptFromTurnLog ==
    [][(RequestStep /\ request'.found /\ prompt' # NoPrompt) =>
           \E turns \in {TurnsAtPrompt(returned', store'[request'.sid])} :
               \A i \in 1..Len(turns) : Mentions(prompt'.context, turns[i])]_vars

(* The fields a request reads of the record of its session: the turn log   *)
(* (agent.py 96), the current shielded document and the original request    *)
(* (llm.py 58-59, agent.py 132), the placeholder map (agent.py 156).        *)
FieldsRead ==
    {"conversation_history", "current_processed_html", "replacements", "original_query"}

(* The screenshot of the last request, if any, could be saved. *)
ScreenshotDecodes ==
    request.screenshot = <<>> \/ Base64Decodes(ImageData(request.screenshot))

(* C28: every record in the store has the fields a request reads, and the   *)
(* first request on a session reaches the Oracle call.                      *)
C28_FreshSessionComplete ==
    /\ \A sid \in StoredSessions : FieldsRead \subseteq DOMAIN store[sid]
    /\ (FirstRequestDone /\ ScreenshotDecodes) => prompt # NoPrompt

(* C29: a request that returns the status error leaves current_html,        *)
(* current_processed_html and replacements of every session as they were    *)
(* and appends no agent turn.                                               *)
C29_ErrorLeavesDocuments ==
    [][(requests' = requests + 1 /\ returned'.status = "error") =>
          /\ DOMAIN store' = DOMAIN store
          /\ \A sid \in StoredSessions :
                /\ store'[sid].current_html = store[sid].current_html
                /\ store'[sid].current_processed_html = store[sid].current_processed_html
                /\ store'[sid].replacements = store[sid].replacements
                /\ SuccessfulEdits(store'[sid]) = SuccessfulEdits(store[sid])]_vars

(* The second request of a session failed in the Patch Collaborator after   *)
(* the first had changed the document: the record holds the document and    *)
(* the one agent turn of the first.                                         *)
C29_Witness ==
    /\ requests = 2
    /\ StillStored
    /\ returned.status = "error"
    /\ request.patch = "raise"
    /\ SuccessfulEdits(Stored) = 1
    /\ Stored.current_html # Stored.html

-----------------------------------------------------------------------------
(* Claims about concurrent requests and the store. *)

(* The handler is between its first statement and its return. *)
Active(h) == handlers[h].pc \notin {"idle", "read"}

(* C22: two requests never operate on one session at the same time: at most *)
(* one handler of a session is between its first statement and its return,  *)
(* and a handler that returns leaves the store and the result that the      *)
(* whole request makes of the store it found at its first statement, and    *)
(* the session file it saves, so nothing another request wrote in between   *)
(* is overwritten or lost.                                                  *)
C22_RequestsDoNotInterleave ==
    /\ [](\A h, k \in Handlers :
            Active(h) /\ Active(k) /\ handlers[h].sid = handlers[k].sid => h = k)
    /\ [][\A h \in Handlers :
            handlers[h].pc # "idle" /\ handlers'[h].pc = "idle" =>
                \E run \in {process_user_request(handlers'[h].start, handlers[h].sid,
                                                 handlers[h].query, <<>>, handlers[h].answer,
                                                 handlers[h].patch)} :
                    /\ store' = run.store
                    /\ handlers'[h].result = run.result
                    /\ snapshots' = run.snapshots]_vars

(* Two requests of one session were issued; the first has the answer of the *)
(* Patch Collaborator and is about to update the record, the second has not *)
(* run yet.                                                                 *)
C22_Witness ==
    \E h, k \in Handlers :
        /\ h # k
        /\ handlers[h].pc = "update"
        /\ handlers[k].pc = "read"
        /\ handlers[k].sid = handlers[h].sid

(* The thread waits for the lock of the store. *)
Blocked(t) == db_threads[t].pc = "acquire" /\ db_lock # "free"

(* The call of the thread is a get or a set. *)
GetOrSet(t) == db_threads[t].op \in {"get", "set"}

(* C23: a get or set is never blocked by a get or set in progress on        *)
(* another key, and a set changes the value of no other key.                *)
C23_PerKeyIsolation ==
    /\ [](\A t \in Threads :
            (Blocked(t) /\ GetOrSet(t) /\ GetOrSet(db_lock)) =>
                db_threads[db_lock].key = db_threads[t].key)
    /\ [][\A t \in Threads, key \in DbKeys :
            DbAccess(t) /\ GetOrSet(t) /\ db_threads[t].key # key =>
                /\ key \in DOMAIN store' <=> key \in DOMAIN store
                /\ key \in DOMAIN store => store'[key] = store[key]]_vars

-----------------------------------------------------------------------------
(* Claims about the two dicts of the observation channel. *)

(* C30: in every state in which another task can get the control, the       *)
(* sessions with a connection are the sessions with a lock, and a           *)
(* send_message that finds a connection finds the lock: it takes it or      *)
(* waits for it.                                                            *)
C30_ConnectionsHaveLocks ==
    /\ [](DOMAIN connections = DOMAIN locks)
    /\ [][\A t \in Tasks, sid \in WsSessions :
            SendMessage(t, sid) /\ sid \in DOMAIN connections =>
                /\ tasks'[t].pc \in {"sending", "waiting"}
                /\ tasks'[t].lock = locks[sid]]_vars

(* A session was disconnected while one task sends to it and another waits  *)
(* for its lock, and the other session, with a task in receive_json, has    *)
(* its connection and its lock.                                             *)
C30_Witness ==
    \E t, u, v \in Tasks : \E sid, other \in WsSessions :
        /\ sid # other
        /\ InSendJson(t, sid)
        /\ tasks[u].pc = "waiting" /\ tasks[u].sid = sid
        /\ Unregistered(sid)
        /\ tasks[v].pc = "receiving" /\ tasks[v].sid = other
        /\ other \in DOMAIN connections
        /\ other \in DOMAIN locks

=============================================================================
